---- MODULE Spec2Model ----
(***************************************************************************)
(* Arckitek: the App shell (selected image, editor overlay, scene url),    *)
(* the chat panel (ChatInterface), the modal ImageEditor, the              *)
(* ThreeDViewer capture entry point and the geminiService wrappers         *)
(* (sendMessage, editImage, generateImage).                                *)
(*                                                                         *)
(* Conventions.                                                            *)
(*  - A text is a sequence of tokens.  What the user types is a sequence   *)
(*    of one-character tokens (one UTF-16 code unit each); a string        *)
(*    literal of the source is one token holding the literal.  Template    *)
(*    strings concatenate tokens.                                          *)
(*  - An image is a data url, kept as the record [head, data] of the text  *)
(*    before its first comma and the text after it (the payload, opaque    *)
(*    tokens holding no comma).  NoImage, with nothing in either, is the   *)
(*    empty string / null / undefined.                                     *)
(*  - An await on a service call splits a handler into the step that runs  *)
(*    up to the await (the user event) and the step that runs from the     *)
(*    settled promise to the end of the handler (the completion).  The     *)
(*    log `calls` holds one record per service call issued, pending until  *)
(*    its completion step has run.                                         *)
(*  - A file read splits handleFileChange the same way: the step that      *)
(*    starts the FileReader and the later step in which its onload runs;   *)
(*    `reading` counts the reads started and not yet delivered.            *)
(***************************************************************************)
EXTENDS Integers, Sequences, FiniteSets, TLC

VARIABLES
    capturedImage,   \* App: useState<string | null>(null)
    isEditing,       \* App: useState(false)
    showLinkInput,   \* App: useState(false)
    splineUrl,       \* App: useState('')
    tempUrl,         \* App: useState('')
    input,           \* ChatInterface: useState('')
    messages,        \* ChatInterface: the transcript
    isLoading,       \* ChatInterface: useState(false)
    useThinking,     \* ChatInterface: useState(false)
    useSearch,       \* ChatInterface: useState(false)
    showGenModal,    \* ChatInterface: useState(false)
    genSettings,     \* ChatInterface: {aspectRatio, size, prompt}
    prompt,          \* ImageEditor: useState('')
    isGenerating,    \* ImageEditor: useState(false)
    generatedImage,  \* ImageEditor: useState<string | null>(null)
    error,           \* ImageEditor: useState<string | null>(null)
    viewerMounted,   \* ThreeDViewer: the component is mounted (containerRef.current is set)
    animationFrameId,\* ThreeDViewer: let animationFrameId of the latest animation effect
    pendingFrames,   \* the browser's pending animation-frame callbacks
    reading,         \* App: per picked file, the FileReaders whose onload has not run yet
    calls            \* service calls issued so far, in issue order

appVars    == <<capturedImage, isEditing>>
urlVars    == <<showLinkInput, splineUrl, tempUrl>>
chatVars   == <<input, messages, isLoading, useThinking, useSearch, showGenModal, genSettings>>
editorVars == <<prompt, isGenerating, generatedImage, error>>
viewerVars == <<viewerMounted, animationFrameId, pendingFrames>>
sceneVars  == <<urlVars, viewerVars>>
shellVars  == <<sceneVars, reading>>
vars       == <<appVars, shellVars, chatVars, editorVars, calls>>

(***************************************************************************)
(* Bounds of the model.                                                    *)
(***************************************************************************)
\* service calls issued in one run
MaxCalls == 2
\* length of the typed texts enumerated for the routing heuristic
MaxInputLen == 3
\* animation frames requested in one run
MaxFrames == 4
\* FileReaders reading one file at the same time
MaxReads == 1

(***************************************************************************)
(* Texts.                                                                  *)
(***************************************************************************)
\* A text is held code unit by code unit.  A printable ASCII character is the
\* token holding it, tab, line feed, form feed and carriage return are "\t",
\* "\n", "\f" and "\r"; the grave accent and every other code unit is the token
\* "U+" followed by its four hexadecimal digits in lower case.  A character is
\* the sequence of its code units: one, or a high and a low surrogate.

Hex == <<"0", "1", "2", "3", "4", "5", "6", "7", "8", "9", "a", "b", "c", "d", "e", "f">>

\* the printable ASCII characters, from the space (32) to the tilde (126)
Ascii ==
    << " ", "!", "\"", "#", "$", "%", "&", "'", "(", ")", "*", "+", ",", "-", ".", "/",
       "0", "1", "2", "3", "4", "5", "6", "7", "8", "9", ":", ";", "<", "=", ">", "?",
       "@", "A", "B", "C", "D", "E", "F", "G", "H", "I", "J", "K", "L", "M", "N", "O",
       "P", "Q", "R", "S", "T", "U", "V", "W", "X", "Y", "Z", "[", "\\", "]", "^", "_",
       "U+0060", "a", "b", "c", "d", "e", "f", "g", "h", "i", "j", "k", "l", "m", "n", "o",
       "p", "q", "r", "s", "t", "u", "v", "w", "x", "y", "z", "{", "|", "}", "~" >>

\* the token of code unit n
Tok(n) ==
    CASE n = 9 -> "\t"
      [] n = 10 -> "\n"
      [] n = 12 -> "\f"
      [] n = 13 -> "\r"
      [] n \in 32..126 -> Ascii[n - 31]
      [] OTHER -> "U+" \o Hex[(n \div 4096) + 1] \o Hex[((n \div 256) % 16) + 1]
                       \o Hex[((n \div 16) % 16) + 1] \o Hex[(n % 16) + 1]

\* the UTF-16 code units of code point cp
Units(cp) ==
    IF cp < 65536 THEN <<Tok(cp)>>
    ELSE <<Tok(\HD800 + ((cp - 65536) \div 1024)), Tok(\HDC00 + ((cp - 65536) % 1024))>>

HighSurrogates == {Tok(n) : n \in \HD800..\HDBFF}
LowSurrogates == {Tok(n) : n \in \HDC00..\HDFFF}

\* the characters of a text: a high surrogate followed by a low surrogate is one
\* character, any other code unit is a character by itself
RECURSIVE Chars(_)
Chars(s) ==
    IF s = <<>> THEN <<>>
    ELSE IF Len(s) >= 2 /\ s[1] \in HighSurrogates /\ s[2] \in LowSurrogates
    THEN <<SubSeq(s, 1, 2)>> \o Chars(SubSeq(s, 3, Len(s)))
    ELSE <<SubSeq(s, 1, 1)>> \o Chars(Tail(s))

\* the code points of a set of ranges <<first, last>>
CodePoints(rs) == UNION {r[1]..r[2] : r \in rs}

\* The code points String.prototype.toLowerCase maps to one other code point
\* (Unicode default case conversion): <<first, last, step, lower>> maps first,
\* first + step, .., last to lower, lower + step, ..
CaseRuns ==
    { <<\H0041, \H005A, 1, \H0061>>, <<\H00C0, \H00D6, 1, \H00E0>>, <<\H00D8, \H00DE, 1, \H00F8>>,
      <<\H0100, \H012E, 2, \H0101>>, <<\H0132, \H0136, 2, \H0133>>, <<\H0139, \H0147, 2, \H013A>>,
      <<\H014A, \H0176, 2, \H014B>>, <<\H0178, \H0178, 1, \H00FF>>, <<\H0179, \H017D, 2, \H017A>>,
      <<\H0181, \H0181, 1, \H0253>>, <<\H0182, \H0184, 2, \H0183>>, <<\H0186, \H0186, 1, \H0254>>,
      <<\H0187, \H0187, 1, \H0188>>, <<\H0189, \H018A, 1, \H0256>>, <<\H018B, \H018B, 1, \H018C>>,
      <<\H018E, \H018E, 1, \H01DD>>, <<\H018F, \H018F, 1, \H0259>>, <<\H0190, \H0190, 1, \H025B>>,
      <<\H0191, \H0191, 1, \H0192>>, <<\H0193, \H0193, 1, \H0260>>, <<\H0194, \H0194, 1, \H0263>>,
      <<\H0196, \H0196, 1, \H0269>>, <<\H0197, \H0197, 1, \H0268>>, <<\H0198, \H0198, 1, \H0199>>,
      <<\H019C, \H019C, 1, \H026F>>, <<\H019D, \H019D, 1, \H0272>>, <<\H019F, \H019F, 1, \H0275>>,
      <<\H01A0, \H01A4, 2, \H01A1>>, <<\H01A6, \H01A6, 1, \H0280>>, <<\H01A7, \H01A7, 1, \H01A8>>,
      <<\H01A9, \H01A9, 1, \H0283>>, <<\H01AC, \H01AC, 1, \H01AD>>, <<\H01AE, \H01AE, 1, \H0288>>,
      <<\H01AF, \H01AF, 1, \H01B0>>, <<\H01B1, \H01B2, 1, \H028A>>, <<\H01B3, \H01B5, 2, \H01B4>>,
      <<\H01B7, \H01B7, 1, \H0292>>, <<\H01B8, \H01B8, 1, \H01B9>>, <<\H01BC, \H01BC, 1, \H01BD>>,
      <<\H01C4, \H01C4, 1, \H01C6>>, <<\H01C5, \H01C5, 1, \H01C6>>, <<\H01C7, \H01C7, 1, \H01C9>>,
      <<\H01C8, \H01C8, 1, \H01C9>>, <<\H01CA, \H01CA, 1, \H01CC>>, <<\H01CB, \H01DB, 2, \H01CC>>,
      <<\H01DE, \H01EE, 2, \H01DF>>, <<\H01F1, \H01F1, 1, \H01F3>>, <<\H01F2, \H01F4, 2, \H01F3>>,
      <<\H01F6, \H01F6, 1, \H0195>>, <<\H01F7, \H01F7, 1, \H01BF>>, <<\H01F8, \H021E, 2, \H01F9>>,
      <<\H0220, \H0220, 1, \H019E>>, <<\H0222, \H0232, 2, \H0223>>, <<\H023A, \H023A, 1, \H2C65>>,
      <<\H023B, \H023B, 1, \H023C>>, <<\H023D, \H023D, 1, \H019A>>, <<\H023E, \H023E, 1, \H2C66>>,
      <<\H0241, \H0241, 1, \H0242>>, <<\H0243, \H0243, 1, \H0180>>, <<\H0244, \H0244, 1, \H0289>>,
      <<\H0245, \H0245, 1, \H028C>>, <<\H0246, \H024E, 2, \H0247>>, <<\H0370, \H0372, 2, \H0371>>,
      <<\H0376, \H0376, 1, \H0377>>, <<\H037F, \H037F, 1, \H03F3>>, <<\H0386, \H0386, 1, \H03AC>>,
      <<\H0388, \H038A, 1, \H03AD>>, <<\H038C, \H038C, 1, \H03CC>>, <<\H038E, \H038F, 1, \H03CD>>,
      <<\H0391, \H03A1, 1, \H03B1>>, <<\H03A3, \H03AB, 1, \H03C3>>, <<\H03CF, \H03CF, 1, \H03D7>>,
      <<\H03D8, \H03EE, 2, \H03D9>>, <<\H03F4, \H03F4, 1, \H03B8>>, <<\H03F7, \H03F7, 1, \H03F8>>,
      <<\H03F9, \H03F9, 1, \H03F2>>, <<\H03FA, \H03FA, 1, \H03FB>>, <<\H03FD, \H03FF, 1, \H037B>>,
      <<\H0400, \H040F, 1, \H0450>>, <<\H0410, \H042F, 1, \H0430>>, <<\H0460, \H0480, 2, \H0461>>,
      <<\H048A, \H04BE, 2, \H048B>>, <<\H04C0, \H04C0, 1, \H04CF>>, <<\H04C1, \H04CD, 2, \H04C2>>,
      <<\H04D0, \H052E, 2, \H04D1>>, <<\H0531, \H0556, 1, \H0561>>, <<\H10A0, \H10C5, 1, \H2D00>>,
      <<\H10C7, \H10C7, 1, \H2D27>>, <<\H10CD, \H10CD, 1, \H2D2D>>, <<\H13A0, \H13EF, 1, \HAB70>>,
      <<\H13F0, \H13F5, 1, \H13F8>>, <<\H1C89, \H1C89, 1, \H1C8A>>, <<\H1C90, \H1CBA, 1, \H10D0>>,
      <<\H1CBD, \H1CBF, 1, \H10FD>>, <<\H1E00, \H1E94, 2, \H1E01>>, <<\H1E9E, \H1E9E, 1, \H00DF>>,
      <<\H1EA0, \H1EFE, 2, \H1EA1>>, <<\H1F08, \H1F0F, 1, \H1F00>>, <<\H1F18, \H1F1D, 1, \H1F10>>,
      <<\H1F28, \H1F2F, 1, \H1F20>>, <<\H1F38, \H1F3F, 1, \H1F30>>, <<\H1F48, \H1F4D, 1, \H1F40>>,
      <<\H1F59, \H1F5F, 2, \H1F51>>, <<\H1F68, \H1F6F, 1, \H1F60>>, <<\H1F88, \H1F8F, 1, \H1F80>>,
      <<\H1F98, \H1F9F, 1, \H1F90>>, <<\H1FA8, \H1FAF, 1, \H1FA0>>, <<\H1FB8, \H1FB9, 1, \H1FB0>>,
      <<\H1FBA, \H1FBB, 1, \H1F70>>, <<\H1FBC, \H1FBC, 1, \H1FB3>>, <<\H1FC8, \H1FCB, 1, \H1F72>>,
      <<\H1FCC, \H1FCC, 1, \H1FC3>>, <<\H1FD8, \H1FD9, 1, \H1FD0>>, <<\H1FDA, \H1FDB, 1, \H1F76>>,
      <<\H1FE8, \H1FE9, 1, \H1FE0>>, <<\H1FEA, \H1FEB, 1, \H1F7A>>, <<\H1FEC, \H1FEC, 1, \H1FE5>>,
      <<\H1FF8, \H1FF9, 1, \H1F78>>, <<\H1FFA, \H1FFB, 1, \H1F7C>>, <<\H1FFC, \H1FFC, 1, \H1FF3>>,
      <<\H2126, \H2126, 1, \H03C9>>, <<\H212A, \H212A, 1, \H006B>>, <<\H212B, \H212B, 1, \H00E5>>,
      <<\H2132, \H2132, 1, \H214E>>, <<\H2160, \H216F, 1, \H2170>>, <<\H2183, \H2183, 1, \H2184>>,
      <<\H24B6, \H24CF, 1, \H24D0>>, <<\H2C00, \H2C2F, 1, \H2C30>>, <<\H2C60, \H2C60, 1, \H2C61>>,
      <<\H2C62, \H2C62, 1, \H026B>>, <<\H2C63, \H2C63, 1, \H1D7D>>, <<\H2C64, \H2C64, 1, \H027D>>,
      <<\H2C67, \H2C6B, 2, \H2C68>>, <<\H2C6D, \H2C6D, 1, \H0251>>, <<\H2C6E, \H2C6E, 1, \H0271>>,
      <<\H2C6F, \H2C6F, 1, \H0250>>, <<\H2C70, \H2C70, 1, \H0252>>, <<\H2C72, \H2C72, 1, \H2C73>>,
      <<\H2C75, \H2C75, 1, \H2C76>>, <<\H2C7E, \H2C7F, 1, \H023F>>, <<\H2C80, \H2CE2, 2, \H2C81>>,
      <<\H2CEB, \H2CED, 2, \H2CEC>>, <<\H2CF2, \H2CF2, 1, \H2CF3>>, <<\HA640, \HA66C, 2, \HA641>>,
      <<\HA680, \HA69A, 2, \HA681>>, <<\HA722, \HA72E, 2, \HA723>>, <<\HA732, \HA76E, 2, \HA733>>,
      <<\HA779, \HA77B, 2, \HA77A>>, <<\HA77D, \HA77D, 1, \H1D79>>, <<\HA77E, \HA786, 2, \HA77F>>,
      <<\HA78B, \HA78B, 1, \HA78C>>, <<\HA78D, \HA78D, 1, \H0265>>, <<\HA790, \HA792, 2, \HA791>>,
      <<\HA796, \HA7A8, 2, \HA797>>, <<\HA7AA, \HA7AA, 1, \H0266>>, <<\HA7AB, \HA7AB, 1, \H025C>>,
      <<\HA7AC, \HA7AC, 1, \H0261>>, <<\HA7AD, \HA7AD, 1, \H026C>>, <<\HA7AE, \HA7AE, 1, \H026A>>,
      <<\HA7B0, \HA7B0, 1, \H029E>>, <<\HA7B1, \HA7B1, 1, \H0287>>, <<\HA7B2, \HA7B2, 1, \H029D>>,
      <<\HA7B3, \HA7B3, 1, \HAB53>>, <<\HA7B4, \HA7C2, 2, \HA7B5>>, <<\HA7C4, \HA7C4, 1, \HA794>>,
      <<\HA7C5, \HA7C5, 1, \H0282>>, <<\HA7C6, \HA7C6, 1, \H1D8E>>, <<\HA7C7, \HA7C9, 2, \HA7C8>>,
      <<\HA7CB, \HA7CB, 1, \H0264>>, <<\HA7CC, \HA7DA, 2, \HA7CD>>, <<\HA7DC, \HA7DC, 1, \H019B>>,
      <<\HA7F5, \HA7F5, 1, \HA7F6>>, <<\HFF21, \HFF3A, 1, \HFF41>>, <<\H10400, \H10427, 1, \H10428>>,
      <<\H104B0, \H104D3, 1, \H104D8>>, <<\H10570, \H10594, 2, \H10597>>, <<\H10571, \H10579, 2, \H10598>>,
      <<\H1057D, \H10589, 2, \H105A4>>, <<\H1058D, \H10591, 2, \H105B4>>, <<\H10595, \H10595, 1, \H105BC>>,
      <<\H10C80, \H10CB2, 1, \H10CC0>>, <<\H10D50, \H10D65, 1, \H10D70>>, <<\H118A0, \H118BF, 1, \H118C0>>,
      <<\H16E40, \H16E5F, 1, \H16E60>>, <<\H16EA0, \H16EB8, 1, \H16EBB>>, <<\H1E900, \H1E921, 1, \H1E922>> }

\* Unicode Cased, as ranges of code points
CasedRanges ==
    { <<\H0041, \H005A>>, <<\H0061, \H007A>>, <<\H00AA, \H00AA>>, <<\H00B5, \H00B5>>, <<\H00BA, \H00BA>>,
      <<\H00C0, \H00D6>>, <<\H00D8, \H00F6>>, <<\H00F8, \H01BA>>, <<\H01BC, \H01BF>>, <<\H01C4, \H0293>>,
      <<\H0296, \H02B8>>, <<\H02C0, \H02C1>>, <<\H02E0, \H02E4>>, <<\H0345, \H0345>>, <<\H0370, \H0373>>,
      <<\H0376, \H0377>>, <<\H037A, \H037D>>, <<\H037F, \H037F>>, <<\H0386, \H0386>>, <<\H0388, \H038A>>,
      <<\H038C, \H038C>>, <<\H038E, \H03A1>>, <<\H03A3, \H03F5>>, <<\H03F7, \H0481>>, <<\H048A, \H052F>>,
      <<\H0531, \H0556>>, <<\H0560, \H0588>>, <<\H10A0, \H10C5>>, <<\H10C7, \H10C7>>, <<\H10CD, \H10CD>>,
      <<\H10D0, \H10FA>>, <<\H10FC, \H10FF>>, <<\H13A0, \H13F5>>, <<\H13F8, \H13FD>>, <<\H1C80, \H1C8A>>,
      <<\H1C90, \H1CBA>>, <<\H1CBD, \H1CBF>>, <<\H1D00, \H1DBF>>, <<\H1E00, \H1F15>>, <<\H1F18, \H1F1D>>,
      <<\H1F20, \H1F45>>, <<\H1F48, \H1F4D>>, <<\H1F50, \H1F57>>, <<\H1F59, \H1F59>>, <<\H1F5B, \H1F5B>>,
      <<\H1F5D, \H1F5D>>, <<\H1F5F, \H1F7D>>, <<\H1F80, \H1FB4>>, <<\H1FB6, \H1FBC>>, <<\H1FBE, \H1FBE>>,
      <<\H1FC2, \H1FC4>>, <<\H1FC6, \H1FCC>>, <<\H1FD0, \H1FD3>>, <<\H1FD6, \H1FDB>>, <<\H1FE0, \H1FEC>>,
      <<\H1FF2, \H1FF4>>, <<\H1FF6, \H1FFC>>, <<\H2071, \H2071>>, <<\H207F, \H207F>>, <<\H2090, \H209C>>,
      <<\H2102, \H2102>>, <<\H2107, \H2107>>, <<\H210A, \H2113>>, <<\H2115, \H2115>>, <<\H2119, \H211D>>,
      <<\H2124, \H2124>>, <<\H2126, \H2126>>, <<\H2128, \H2128>>, <<\H212A, \H212D>>, <<\H212F, \H2134>>,
      <<\H2139, \H2139>>, <<\H213C, \H213F>>, <<\H2145, \H2149>>, <<\H214E, \H214E>>, <<\H2160, \H217F>>,
      <<\H2183, \H2184>>, <<\H24B6, \H24E9>>, <<\H2C00, \H2CE4>>, <<\H2CEB, \H2CEE>>, <<\H2CF2, \H2CF3>>,
      <<\H2D00, \H2D25>>, <<\H2D27, \H2D27>>, <<\H2D2D, \H2D2D>>, <<\HA640, \HA66D>>, <<\HA680, \HA69D>>,
      <<\HA722, \HA787>>, <<\HA78B, \HA78E>>, <<\HA790, \HA7DC>>, <<\HA7F1, \HA7F6>>, <<\HA7F8, \HA7FA>>,
      <<\HAB30, \HAB5A>>, <<\HAB5C, \HAB69>>, <<\HAB70, \HABBF>>, <<\HFB00, \HFB06>>, <<\HFB13, \HFB17>>,
      <<\HFF21, \HFF3A>>, <<\HFF41, \HFF5A>>, <<\H10400, \H1044F>>, <<\H104B0, \H104D3>>, <<\H104D8, \H104FB>>,
      <<\H10570, \H1057A>>, <<\H1057C, \H1058A>>, <<\H1058C, \H10592>>, <<\H10594, \H10595>>, <<\H10597, \H105A1>>,
      <<\H105A3, \H105B1>>, <<\H105B3, \H105B9>>, <<\H105BB, \H105BC>>, <<\H10780, \H10780>>, <<\H10783, \H10785>>,
      <<\H10787, \H107B0>>, <<\H107B2, \H107BA>>, <<\H10C80, \H10CB2>>, <<\H10CC0, \H10CF2>>, <<\H10D50, \H10D65>>,
      <<\H10D70, \H10D85>>, <<\H118A0, \H118DF>>, <<\H16E40, \H16E7F>>, <<\H16EA0, \H16EB8>>, <<\H16EBB, \H16ED3>>,
      <<\H1D400, \H1D454>>, <<\H1D456, \H1D49C>>, <<\H1D49E, \H1D49F>>, <<\H1D4A2, \H1D4A2>>, <<\H1D4A5, \H1D4A6>>,
      <<\H1D4A9, \H1D4AC>>, <<\H1D4AE, \H1D4B9>>, <<\H1D4BB, \H1D4BB>>, <<\H1D4BD, \H1D4C3>>, <<\H1D4C5, \H1D505>>,
      <<\H1D507, \H1D50A>>, <<\H1D50D, \H1D514>>, <<\H1D516, \H1D51C>>, <<\H1D51E, \H1D539>>, <<\H1D53B, \H1D53E>>,
      <<\H1D540, \H1D544>>, <<\H1D546, \H1D546>>, <<\H1D54A, \H1D550>>, <<\H1D552, \H1D6A5>>, <<\H1D6A8, \H1D6C0>>,
      <<\H1D6C2, \H1D6DA>>, <<\H1D6DC, \H1D6FA>>, <<\H1D6FC, \H1D714>>, <<\H1D716, \H1D734>>, <<\H1D736, \H1D74E>>,
      <<\H1D750, \H1D76E>>, <<\H1D770, \H1D788>>, <<\H1D78A, \H1D7A8>>, <<\H1D7AA, \H1D7C2>>, <<\H1D7C4, \H1D7CB>>,
      <<\H1DF00, \H1DF09>>, <<\H1DF0B, \H1DF1E>>, <<\H1DF25, \H1DF2A>>, <<\H1E030, \H1E06D>>, <<\H1E900, \H1E943>>,
      <<\H1F130, \H1F149>>, <<\H1F150, \H1F169>>, <<\H1F170, \H1F189>> }

\* Unicode Case_Ignorable, as ranges of code points
CaseIgnorableRanges ==
    { <<\H0027, \H0027>>, <<\H002E, \H002E>>, <<\H003A, \H003A>>, <<\H005E, \H005E>>, <<\H0060, \H0060>>,
      <<\H00A8, \H00A8>>, <<\H00AD, \H00AD>>, <<\H00AF, \H00AF>>, <<\H00B4, \H00B4>>, <<\H00B7, \H00B8>>,
      <<\H02B0, \H036F>>, <<\H0374, \H0375>>, <<\H037A, \H037A>>, <<\H0384, \H0385>>, <<\H0387, \H0387>>,
      <<\H0483, \H0489>>, <<\H0559, \H0559>>, <<\H055F, \H055F>>, <<\H0591, \H05BD>>, <<\H05BF, \H05BF>>,
      <<\H05C1, \H05C2>>, <<\H05C4, \H05C5>>, <<\H05C7, \H05C7>>, <<\H05F4, \H05F4>>, <<\H0600, \H0605>>,
      <<\H0610, \H061A>>, <<\H061C, \H061C>>, <<\H0640, \H0640>>, <<\H064B, \H065F>>, <<\H0670, \H0670>>,
      <<\H06D6, \H06DD>>, <<\H06DF, \H06E8>>, <<\H06EA, \H06ED>>, <<\H070F, \H070F>>, <<\H0711, \H0711>>,
      <<\H0730, \H074A>>, <<\H07A6, \H07B0>>, <<\H07EB, \H07F5>>, <<\H07FA, \H07FA>>, <<\H07FD, \H07FD>>,
      <<\H0816, \H082D>>, <<\H0859, \H085B>>, <<\H0888, \H0888>>, <<\H0890, \H0891>>, <<\H0897, \H089F>>,
      <<\H08C9, \H0902>>, <<\H093A, \H093A>>, <<\H093C, \H093C>>, <<\H0941, \H0948>>, <<\H094D, \H094D>>,
      <<\H0951, \H0957>>, <<\H0962, \H0963>>, <<\H0971, \H0971>>, <<\H0981, \H0981>>, <<\H09BC, \H09BC>>,
      <<\H09C1, \H09C4>>, <<\H09CD, \H09CD>>, <<\H09E2, \H09E3>>, <<\H09FE, \H09FE>>, <<\H0A01, \H0A02>>,
      <<\H0A3C, \H0A3C>>, <<\H0A41, \H0A42>>, <<\H0A47, \H0A48>>, <<\H0A4B, \H0A4D>>, <<\H0A51, \H0A51>>,
      <<\H0A70, \H0A71>>, <<\H0A75, \H0A75>>, <<\H0A81, \H0A82>>, <<\H0ABC, \H0ABC>>, <<\H0AC1, \H0AC5>>,
      <<\H0AC7, \H0AC8>>, <<\H0ACD, \H0ACD>>, <<\H0AE2, \H0AE3>>, <<\H0AFA, \H0AFF>>, <<\H0B01, \H0B01>>,
      <<\H0B3C, \H0B3C>>, <<\H0B3F, \H0B3F>>, <<\H0B41, \H0B44>>, <<\H0B4D, \H0B4D>>, <<\H0B55, \H0B56>>,
      <<\H0B62, \H0B63>>, <<\H0B82, \H0B82>>, <<\H0BC0, \H0BC0>>, <<\H0BCD, \H0BCD>>, <<\H0C00, \H0C00>>,
      <<\H0C04, \H0C04>>, <<\H0C3C, \H0C3C>>, <<\H0C3E, \H0C40>>, <<\H0C46, \H0C48>>, <<\H0C4A, \H0C4D>>,
      <<\H0C55, \H0C56>>, <<\H0C62, \H0C63>>, <<\H0C81, \H0C81>>, <<\H0CBC, \H0CBC>>, <<\H0CBF, \H0CBF>>,
      <<\H0CC6, \H0CC6>>, <<\H0CCC, \H0CCD>>, <<\H0CE2, \H0CE3>>, <<\H0D00, \H0D01>>, <<\H0D3B, \H0D3C>>,
      <<\H0D41, \H0D44>>, <<\H0D4D, \H0D4D>>, <<\H0D62, \H0D63>>, <<\H0D81, \H0D81>>, <<\H0DCA, \H0DCA>>,
      <<\H0DD2, \H0DD4>>, <<\H0DD6, \H0DD6>>, <<\H0E31, \H0E31>>, <<\H0E34, \H0E3A>>, <<\H0E46, \H0E4E>>,
      <<\H0EB1, \H0EB1>>, <<\H0EB4, \H0EBC>>, <<\H0EC6, \H0EC6>>, <<\H0EC8, \H0ECE>>, <<\H0F18, \H0F19>>,
      <<\H0F35, \H0F35>>, <<\H0F37, \H0F37>>, <<\H0F39, \H0F39>>, <<\H0F71, \H0F7E>>, <<\H0F80, \H0F84>>,
      <<\H0F86, \H0F87>>, <<\H0F8D, \H0F97>>, <<\H0F99, \H0FBC>>, <<\H0FC6, \H0FC6>>, <<\H102D, \H1030>>,
      <<\H1032, \H1037>>, <<\H1039, \H103A>>, <<\H103D, \H103E>>, <<\H1058, \H1059>>, <<\H105E, \H1060>>,
      <<\H1071, \H1074>>, <<\H1082, \H1082>>, <<\H1085, \H1086>>, <<\H108D, \H108D>>, <<\H109D, \H109D>>,
      <<\H10FC, \H10FC>>, <<\H135D, \H135F>>, <<\H1712, \H1714>>, <<\H1732, \H1733>>, <<\H1752, \H1753>>,
      <<\H1772, \H1773>>, <<\H17B4, \H17B5>>, <<\H17B7, \H17BD>>, <<\H17C6, \H17C6>>, <<\H17C9, \H17D3>>,
      <<\H17D7, \H17D7>>, <<\H17DD, \H17DD>>, <<\H180B, \H180F>>, <<\H1843, \H1843>>, <<\H1885, \H1886>>,
      <<\H18A9, \H18A9>>, <<\H1920, \H1922>>, <<\H1927, \H1928>>, <<\H1932, \H1932>>, <<\H1939, \H193B>>,
      <<\H1A17, \H1A18>>, <<\H1A1B, \H1A1B>>, <<\H1A56, \H1A56>>, <<\H1A58, \H1A5E>>, <<\H1A60, \H1A60>>,
      <<\H1A62, \H1A62>>, <<\H1A65, \H1A6C>>, <<\H1A73, \H1A7C>>, <<\H1A7F, \H1A7F>>, <<\H1AA7, \H1AA7>>,
      <<\H1AB0, \H1ADD>>, <<\H1AE0, \H1AEB>>, <<\H1B00, \H1B03>>, <<\H1B34, \H1B34>>, <<\H1B36, \H1B3A>>,
      <<\H1B3C, \H1B3C>>, <<\H1B42, \H1B42>>, <<\H1B6B, \H1B73>>, <<\H1B80, \H1B81>>, <<\H1BA2, \H1BA5>>,
      <<\H1BA8, \H1BA9>>, <<\H1BAB, \H1BAD>>, <<\H1BE6, \H1BE6>>, <<\H1BE8, \H1BE9>>, <<\H1BED, \H1BED>>,
      <<\H1BEF, \H1BF1>>, <<\H1C2C, \H1C33>>, <<\H1C36, \H1C37>>, <<\H1C78, \H1C7D>>, <<\H1CD0, \H1CD2>>,
      <<\H1CD4, \H1CE0>>, <<\H1CE2, \H1CE8>>, <<\H1CED, \H1CED>>, <<\H1CF4, \H1CF4>>, <<\H1CF8, \H1CF9>>,
      <<\H1D2C, \H1D6A>>, <<\H1D78, \H1D78>>, <<\H1D9B, \H1DFF>>, <<\H1FBD, \H1FBD>>, <<\H1FBF, \H1FC1>>,
      <<\H1FCD, \H1FCF>>, <<\H1FDD, \H1FDF>>, <<\H1FED, \H1FEF>>, <<\H1FFD, \H1FFE>>, <<\H200B, \H200F>>,
      <<\H2018, \H2019>>, <<\H2024, \H2024>>, <<\H2027, \H2027>>, <<\H202A, \H202E>>, <<\H2060, \H2064>>,
      <<\H2066, \H206F>>, <<\H2071, \H2071>>, <<\H207F, \H207F>>, <<\H2090, \H209C>>, <<\H20D0, \H20F0>>,
      <<\H2C7C, \H2C7D>>, <<\H2CEF, \H2CF1>>, <<\H2D6F, \H2D6F>>, <<\H2D7F, \H2D7F>>, <<\H2DE0, \H2DFF>>,
      <<\H2E2F, \H2E2F>>, <<\H3005, \H3005>>, <<\H302A, \H302D>>, <<\H3031, \H3035>>, <<\H303B, \H303B>>,
      <<\H3099, \H309E>>, <<\H30FC, \H30FE>>, <<\HA015, \HA015>>, <<\HA4F8, \HA4FD>>, <<\HA60C, \HA60C>>,
      <<\HA66F, \HA672>>, <<\HA674, \HA67D>>, <<\HA67F, \HA67F>>, <<\HA69C, \HA69F>>, <<\HA6F0, \HA6F1>>,
      <<\HA700, \HA721>>, <<\HA770, \HA770>>, <<\HA788, \HA78A>>, <<\HA7F1, \HA7F4>>, <<\HA7F8, \HA7F9>>,
      <<\HA802, \HA802>>, <<\HA806, \HA806>>, <<\HA80B, \HA80B>>, <<\HA825, \HA826>>, <<\HA82C, \HA82C>>,
      <<\HA8C4, \HA8C5>>, <<\HA8E0, \HA8F1>>, <<\HA8FF, \HA8FF>>, <<\HA926, \HA92D>>, <<\HA947, \HA951>>,
      <<\HA980, \HA982>>, <<\HA9B3, \HA9B3>>, <<\HA9B6, \HA9B9>>, <<\HA9BC, \HA9BD>>, <<\HA9CF, \HA9CF>>,
      <<\HA9E5, \HA9E6>>, <<\HAA29, \HAA2E>>, <<\HAA31, \HAA32>>, <<\HAA35, \HAA36>>, <<\HAA43, \HAA43>>,
      <<\HAA4C, \HAA4C>>, <<\HAA70, \HAA70>>, <<\HAA7C, \HAA7C>>, <<\HAAB0, \HAAB0>>, <<\HAAB2, \HAAB4>>,
      <<\HAAB7, \HAAB8>>, <<\HAABE, \HAABF>>, <<\HAAC1, \HAAC1>>, <<\HAADD, \HAADD>>, <<\HAAEC, \HAAED>>,
      <<\HAAF3, \HAAF4>>, <<\HAAF6, \HAAF6>>, <<\HAB5B, \HAB5F>>, <<\HAB69, \HAB6B>>, <<\HABE5, \HABE5>>,
      <<\HABE8, \HABE8>>, <<\HABED, \HABED>>, <<\HFB1E, \HFB1E>>, <<\HFBB2, \HFBC2>>, <<\HFE00, \HFE0F>>,
      <<\HFE13, \HFE13>>, <<\HFE20, \HFE2F>>, <<\HFE52, \HFE52>>, <<\HFE55, \HFE55>>, <<\HFEFF, \HFEFF>>,
      <<\HFF07, \HFF07>>, <<\HFF0E, \HFF0E>>, <<\HFF1A, \HFF1A>>, <<\HFF3E, \HFF3E>>, <<\HFF40, \HFF40>>,
      <<\HFF70, \HFF70>>, <<\HFF9E, \HFF9F>>, <<\HFFE3, \HFFE3>>, <<\HFFF9, \HFFFB>>, <<\H101FD, \H101FD>>,
      <<\H102E0, \H102E0>>, <<\H10376, \H1037A>>, <<\H10780, \H10785>>, <<\H10787, \H107B0>>, <<\H107B2, \H107BA>>,
      <<\H10A01, \H10A03>>, <<\H10A05, \H10A06>>, <<\H10A0C, \H10A0F>>, <<\H10A38, \H10A3A>>, <<\H10A3F, \H10A3F>>,
      <<\H10AE5, \H10AE6>>, <<\H10D24, \H10D27>>, <<\H10D4E, \H10D4E>>, <<\H10D69, \H10D6D>>, <<\H10D6F, \H10D6F>>,
      <<\H10EAB, \H10EAC>>, <<\H10EC5, \H10EC5>>, <<\H10EFA, \H10EFF>>, <<\H10F46, \H10F50>>, <<\H10F82, \H10F85>>,
      <<\H11001, \H11001>>, <<\H11038, \H11046>>, <<\H11070, \H11070>>, <<\H11073, \H11074>>, <<\H1107F, \H11081>>,
      <<\H110B3, \H110B6>>, <<\H110B9, \H110BA>>, <<\H110BD, \H110BD>>, <<\H110C2, \H110C2>>, <<\H110CD, \H110CD>>,
      <<\H11100, \H11102>>, <<\H11127, \H1112B>>, <<\H1112D, \H11134>>, <<\H11173, \H11173>>, <<\H11180, \H11181>>,
      <<\H111B6, \H111BE>>, <<\H111C9, \H111CC>>, <<\H111CF, \H111CF>>, <<\H1122F, \H11231>>, <<\H11234, \H11234>>,
      <<\H11236, \H11237>>, <<\H1123E, \H1123E>>, <<\H11241, \H11241>>, <<\H112DF, \H112DF>>, <<\H112E3, \H112EA>>,
      <<\H11300, \H11301>>, <<\H1133B, \H1133C>>, <<\H11340, \H11340>>, <<\H11366, \H1136C>>, <<\H11370, \H11374>>,
      <<\H113BB, \H113C0>>, <<\H113CE, \H113CE>>, <<\H113D0, \H113D0>>, <<\H113D2, \H113D2>>, <<\H113E1, \H113E2>>,
      <<\H11438, \H1143F>>, <<\H11442, \H11444>>, <<\H11446, \H11446>>, <<\H1145E, \H1145E>>, <<\H114B3, \H114B8>>,
      <<\H114BA, \H114BA>>, <<\H114BF, \H114C0>>, <<\H114C2, \H114C3>>, <<\H115B2, \H115B5>>, <<\H115BC, \H115BD>>,
      <<\H115BF, \H115C0>>, <<\H115DC, \H115DD>>, <<\H11633, \H1163A>>, <<\H1163D, \H1163D>>, <<\H1163F, \H11640>>,
      <<\H116AB, \H116AB>>, <<\H116AD, \H116AD>>, <<\H116B0, \H116B5>>, <<\H116B7, \H116B7>>, <<\H1171D, \H1171D>>,
      <<\H1171F, \H1171F>>, <<\H11722, \H11725>>, <<\H11727, \H1172B>>, <<\H1182F, \H11837>>, <<\H11839, \H1183A>>,
      <<\H1193B, \H1193C>>, <<\H1193E, \H1193E>>, <<\H11943, \H11943>>, <<\H119D4, \H119D7>>, <<\H119DA, \H119DB>>,
      <<\H119E0, \H119E0>>, <<\H11A01, \H11A0A>>, <<\H11A33, \H11A38>>, <<\H11A3B, \H11A3E>>, <<\H11A47, \H11A47>>,
      <<\H11A51, \H11A56>>, <<\H11A59, \H11A5B>>, <<\H11A8A, \H11A96>>, <<\H11A98, \H11A99>>, <<\H11B60, \H11B60>>,
      <<\H11B62, \H11B64>>, <<\H11B66, \H11B66>>, <<\H11C30, \H11C36>>, <<\H11C38, \H11C3D>>, <<\H11C3F, \H11C3F>>,
      <<\H11C92, \H11CA7>>, <<\H11CAA, \H11CB0>>, <<\H11CB2, \H11CB3>>, <<\H11CB5, \H11CB6>>, <<\H11D31, \H11D36>>,
      <<\H11D3A, \H11D3A>>, <<\H11D3C, \H11D3D>>, <<\H11D3F, \H11D45>>, <<\H11D47, \H11D47>>, <<\H11D90, \H11D91>>,
      <<\H11D95, \H11D95>>, <<\H11D97, \H11D97>>, <<\H11DD9, \H11DD9>>, <<\H11EF3, \H11EF4>>, <<\H11F00, \H11F01>>,
      <<\H11F36, \H11F3A>>, <<\H11F40, \H11F40>>, <<\H11F42, \H11F42>>, <<\H11F5A, \H11F5A>>, <<\H13430, \H13440>>,
      <<\H13447, \H13455>>, <<\H1611E, \H16129>>, <<\H1612D, \H1612F>>, <<\H16AF0, \H16AF4>>, <<\H16B30, \H16B36>>,
      <<\H16B40, \H16B43>>, <<\H16D40, \H16D42>>, <<\H16D6B, \H16D6C>>, <<\H16F4F, \H16F4F>>, <<\H16F8F, \H16F9F>>,
      <<\H16FE0, \H16FE1>>, <<\H16FE3, \H16FE4>>, <<\H16FF2, \H16FF3>>, <<\H1AFF0, \H1AFF3>>, <<\H1AFF5, \H1AFFB>>,
      <<\H1AFFD, \H1AFFE>>, <<\H1BC9D, \H1BC9E>>, <<\H1BCA0, \H1BCA3>>, <<\H1CF00, \H1CF2D>>, <<\H1CF30, \H1CF46>>,
      <<\H1D167, \H1D169>>, <<\H1D173, \H1D182>>, <<\H1D185, \H1D18B>>, <<\H1D1AA, \H1D1AD>>, <<\H1D242, \H1D244>>,
      <<\H1DA00, \H1DA36>>, <<\H1DA3B, \H1DA6C>>, <<\H1DA75, \H1DA75>>, <<\H1DA84, \H1DA84>>, <<\H1DA9B, \H1DA9F>>,
      <<\H1DAA1, \H1DAAF>>, <<\H1E000, \H1E006>>, <<\H1E008, \H1E018>>, <<\H1E01B, \H1E021>>, <<\H1E023, \H1E024>>,
      <<\H1E026, \H1E02A>>, <<\H1E030, \H1E06D>>, <<\H1E08F, \H1E08F>>, <<\H1E130, \H1E13D>>, <<\H1E2AE, \H1E2AE>>,
      <<\H1E2EC, \H1E2EF>>, <<\H1E4EB, \H1E4EF>>, <<\H1E5EE, \H1E5EF>>, <<\H1E6E3, \H1E6E3>>, <<\H1E6E6, \H1E6E6>>,
      <<\H1E6EE, \H1E6EF>>, <<\H1E6F5, \H1E6F5>>, <<\H1E6FF, \H1E6FF>>, <<\H1E8D0, \H1E8D6>>, <<\H1E944, \H1E94B>>,
      <<\H1F3FB, \H1F3FF>>, <<\HE0001, \HE0001>>, <<\HE0020, \HE007F>>, <<\HE0100, \HE01EF>> }

\* the flattening of a sequence of texts
RECURSIVE Concat(_)
Concat(ss) == IF ss = <<>> THEN <<>> ELSE Head(ss) \o Concat(Tail(ss))

\* the pairs <<character, its lower case>> of CaseRuns
LowerPairs ==
    UNION { { <<Units(r[1] + k * r[3]), Units(r[4] + k * r[3])>> :
                k \in 0..((r[2] - r[1]) \div r[3]) } : r \in CaseRuns }

\* the pairs as a function from their first components
LowerOf ==
    [c \in {p[1] : p \in LowerPairs} |-> (CHOOSE p \in LowerPairs : p[1] = c)[2]]

\* toLowerCase on one character out of context: I with dot above is the one
\* character that becomes two, i and the combining dot above
LowerChar(c) ==
    IF c = <<"U+0130">> THEN <<"i", "U+0307">>
    ELSE IF c \in DOMAIN LowerOf THEN LowerOf[c]
    ELSE c

CasedChars == {Units(cp) : cp \in CodePoints(CasedRanges)}
CaseIgnorableChars == {Units(cp) : cp \in CodePoints(CaseIgnorableRanges)}

Cased(c) == c \in CasedChars

CaseIgnorable(c) == c \in CaseIgnorableChars

\* Unicode Final_Sigma, for character i of the characters cs: the nearest
\* character before it that is not case-ignorable exists and is cased, and the
\* nearest character after it that is not case-ignorable, if any, is not cased
FinalSigma(cs, i) ==
    LET before == {j \in 1..(i - 1) : ~ CaseIgnorable(cs[j])}
        after == {j \in (i + 1)..Len(cs) : ~ CaseIgnorable(cs[j])}
    IN  /\ before # {}
        /\ Cased(cs[CHOOSE j \in before : \A k \in before : k <= j])
        /\ after # {} => ~ Cased(cs[CHOOSE j \in after : \A k \in after : j <= k])

\* String.prototype.toLowerCase: character by character, a capital sigma in
\* final position becoming the final small sigma
toLowerCase(s) ==
    LET cs == Chars(s)
    IN  Concat([i \in 1..Len(cs) |->
                  IF cs[i] = <<"U+03a3">> /\ FinalSigma(cs, i)
                  THEN <<"U+03c2">>
                  ELSE LowerChar(cs[i])])

\* String.prototype.includes
includes(s, sub) ==
    \E k \in 0..(Len(s) - Len(sub)) :
        \A j \in 1..Len(sub) : s[k + j] = sub[j]

\* the code units String.prototype.trim strips (WhiteSpace and LineTerminator of
\* ECMAScript): tab, line feed, vertical tab, form feed, carriage return, space,
\* no-break space, U+1680, U+2000 .. U+200A, U+2028, U+2029, U+202F, U+205F,
\* U+3000 and the byte order mark
Whitespace ==
    {Tok(n) : n \in 9..13 \cup {32, \H00A0, \H1680} \cup \H2000..\H200A
                     \cup {\H2028, \H2029, \H202F, \H205F, \H3000, \HFEFF}}

RECURSIVE trimStart(_)
trimStart(s) ==
    IF s # <<>> /\ Head(s) \in Whitespace THEN trimStart(Tail(s)) ELSE s

RECURSIVE trimEnd(_)
trimEnd(s) ==
    IF s # <<>> /\ s[Len(s)] \in Whitespace
    THEN trimEnd(SubSeq(s, 1, Len(s) - 1))
    ELSE s

\* String.prototype.trim
trim(s) == trimEnd(trimStart(s))

\* JavaScript truthiness of a string / of string | null
Truthy(s) == s # <<>>

EmptyText == <<>>

WelcomeText == <<"Welcome to Arckitek. Load a model, capture the viewport, or upload an image to analyze.">>
EditedText == <<"Here is the edited visualization.">>
EditEmptyText == <<"I tried to edit the image but couldn't generate a result.">>
SendErrorText == <<"Sorry, I encountered an error.">>
GeneratedText == <<"Generated concept.">>
GenEmptyText == <<"Failed to generate image.">>
GenErrorText == <<"Error generating image.">>
DefaultEditPrompt == <<"Make requested edits">>
DefaultChatPrompt == <<"Analyze this image">>
EditorEmptyError == <<"Could not generate edit. Try a different prompt.">>
EditorThrowError == <<"An error occurred during generation.">>
NoError == <<>>

\* the keywords of the edit heuristic of handleSend
EditKeywords == { <<"a","d","d">>,
                  <<"r","e","m","o","v","e">>,
                  <<"c","h","a","n","g","e">>,
                  <<"f","i","l","t","e","r">> }

(***************************************************************************)
(* Images.                                                                 *)
(***************************************************************************)
NoImage == [head |-> <<>>, data |-> <<>>]
HasImage(img) == img # NoImage

\* `data:${mimeType};base64,${data}`
dataUrl(part) == [head |-> <<"data:", part.mimeType, ";base64">>, data |-> part.data]

\* what FileReader.readAsDataURL hands to reader.onload for the files the user picks
UploadA == dataUrl([mimeType |-> "image/png", data |-> <<"payload A">>])
UploadB == dataUrl([mimeType |-> "image/jpeg", data |-> <<"payload B">>])
Uploads == {UploadA, UploadB}

\* the whole string of an image
wholeString(img) == IF img.head = <<>> THEN <<>> ELSE img.head \o <<",">> \o img.data

\* image.split(',')[1] || image : the payload after the first comma, or the whole
\* string when there is no payload
base64Data(img) == IF Truthy(img.data) THEN img.data ELSE wholeString(img)

(***************************************************************************)
(* geminiService: the three wrappers around the vendor SDK.  A wrapper      *)
(* builds its request synchronously, awaits the SDK, and turns the SDK's    *)
(* answer into its return value or rethrows.  The SDK is an opaque          *)
(* collaborator: its answer is chosen nondeterministically when the call    *)
(* completes.                                                               *)
(***************************************************************************)
ThinkingBudget == 32768

\* sendMessage: model selection
chatModelName(thinking, search) ==
    IF thinking THEN "gemini-3-pro-preview"
    ELSE IF search THEN "gemini-2.5-flash"
    ELSE "gemini-3-pro-preview"

\* sendMessage: the config object; a key that is not set is not in its domain
chatConfig(thinking, search) ==
    IF thinking THEN [thinkingConfig |-> [thinkingBudget |-> ThinkingBudget]]
    ELSE IF search THEN [tools |-> <<"googleSearch">>]
    ELSE <<>>

\* sendMessage: userParts, the image part unshifted in front of the text part
chatUserParts(message, image) ==
    IF HasImage(image)
    THEN << [inlineData |-> [mimeType |-> "image/png", data |-> base64Data(image)]],
            [text |-> message] >>
    ELSE << [text |-> message] >>

\* sendMessage: what goes to ai.chats.create(...).sendMessageStream(...)
sendMessageRequest(opts) ==
    [ model   |-> chatModelName(opts.useThinking, opts.useSearch),
      config  |-> chatConfig(opts.useThinking, opts.useSearch),
      history |-> opts.history,
      parts   |-> chatUserParts(opts.message, opts.image) ]

\* editImage: what goes to ai.models.generateContent
editImageRequest(base64Image, promptText) ==
    [ model |-> "gemini-2.5-flash-image",
      parts |-> << [inlineData |-> [mimeType |-> "image/png", data |-> base64Data(base64Image)]],
                   [text |-> promptText] >> ]

\* generateImage: what goes to ai.models.generateContent
generateImageRequest(promptText, size, aspectRatio) ==
    [ model |-> "gemini-3-pro-image-preview",
      parts |-> << [text |-> promptText] >>,
      config |-> [imageConfig |-> [imageSize |-> size, aspectRatio |-> aspectRatio]] ]

\* sendMessage: the for-await loop over the stream, fullText
RECURSIVE streamText(_)
streamText(chunks) ==
    IF chunks = <<>> THEN EmptyText
    ELSE (IF Truthy(Head(chunks).text) THEN Head(chunks).text ELSE EmptyText)
         \o streamText(Tail(chunks))

\* sendMessage: the for-await loop over the stream, groundingChunks (the last one seen)
RECURSIVE streamGrounding(_, _)
streamGrounding(chunks, acc) ==
    IF chunks = <<>> THEN acc
    ELSE streamGrounding(Tail(chunks),
            IF Head(chunks).hasGrounding THEN Head(chunks).groundingChunks ELSE acc)

\* editImage / generateImage: the loop over response.candidates?.[0]?.content?.parts || []
RECURSIVE firstInlineImage(_)
firstInlineImage(parts) ==
    IF parts = <<>> THEN NoImage
    ELSE IF "inlineData" \in DOMAIN Head(parts) THEN dataUrl(Head(parts).inlineData)
    ELSE firstInlineImage(Tail(parts))

\* what a wrapper hands back to its caller: a value, or the rethrown error
Returned(v) == [status |-> "returned", value |-> v]
Threw == [status |-> "threw", value |-> <<>>]

\* sendMessage, from the settled SDK promise to return / throw
sendMessageOutcome(sdk) ==
    IF sdk.threw THEN Threw
    ELSE Returned([text |-> streamText(sdk.chunks),
                   groundingChunks |-> streamGrounding(sdk.chunks, <<>>)])

\* editImage, from the settled SDK promise to return / throw
editImageOutcome(sdk) ==
    IF sdk.threw THEN Threw ELSE Returned(firstInlineImage(sdk.parts))

\* generateImage, from the settled SDK promise to return / throw
generateImageOutcome(sdk) ==
    IF sdk.threw THEN Threw ELSE Returned(firstInlineImage(sdk.parts))

(***************************************************************************)
(* What the SDK may answer (the environment).  The image a call returns     *)
(* is fresh: its payload is numbered after the call.                        *)
(***************************************************************************)
ResultData(i) == <<"result of call ", ToString(i)>>

AnswerText == <<"Answer.">>
WebChunk == [web |-> [title |-> EmptyText, uri |-> <<"https://source.example">>]]

SdkThrows == [threw |-> TRUE, chunks |-> <<>>, parts |-> <<>>]

SdkStreams ==
    { [threw |-> FALSE, parts |-> <<>>, chunks |-> c] : c \in
        { <<>>,
          << [text |-> AnswerText, hasGrounding |-> FALSE, groundingChunks |-> <<>>],
             [text |-> EmptyText, hasGrounding |-> TRUE, groundingChunks |-> <<WebChunk>>] >> } }

SdkContents(i) ==
    { [threw |-> FALSE, chunks |-> <<>>, parts |-> p] : p \in
        { << [text |-> <<"No image.">>] >>,
          << [text |-> <<"Here you go.">>],
             [inlineData |-> [mimeType |-> "image/png", data |-> ResultData(i)]] >> } }

SdkAnswers(api, i) ==
    {SdkThrows} \cup (IF api = "sendMessage" THEN SdkStreams ELSE SdkContents(i))

(***************************************************************************)
(* Initial state: App, ChatInterface mounted; no editor.                    *)
(***************************************************************************)
Msg(role, text, image, urls) ==
    [role |-> role, text |-> text, image |-> image, groundingUrls |-> urls]

WelcomeMessage == Msg("model", WelcomeText, NoImage, <<>>)

\* a plausible slip of the functional update: the new turn put in front
prependMessage(prev, m) == <<m>> \o prev

\* setMessages(prev => [...prev, m])
appendMessage(prev, m) == Append(prev, m)

NoUrl == ""
SceneUrl == "https://my.spline.design/scene"
Urls == {NoUrl, SceneUrl}

GenSizes == {"1K", "2K", "4K"}
GenAspects == {"1:1", "16:9", "4:3"}

\* the state after the first render, and after the user has typed `text` and
\* picked the file `img`
Mounted(text, img) ==
    /\ capturedImage = img
    /\ isEditing = FALSE
    /\ showLinkInput = FALSE
    /\ splineUrl = NoUrl
    /\ tempUrl = NoUrl
    /\ reading = [f \in Uploads |-> 0]
    /\ input = text
    /\ messages = <<WelcomeMessage>>
    /\ isLoading = FALSE
    /\ useThinking = FALSE
    /\ useSearch = FALSE
    /\ showGenModal = FALSE
    /\ genSettings = [aspectRatio |-> "1:1", size |-> "1K", prompt |-> EmptyText]
    /\ prompt = EmptyText
    /\ isGenerating = FALSE
    /\ generatedImage = NoImage
    /\ error = NoError
    /\ viewerMounted = TRUE
    /\ animationFrameId = 1
    /\ pendingFrames = { [id |-> 1, t |-> 1] }
    /\ calls = <<>>

Init == Mounted(EmptyText, NoImage)

(***************************************************************************)
(* The log of service calls.                                                *)
(***************************************************************************)
\* origin: the handler that issued the call; closureImage: the initialImage its
\* closure holds; mounted: whether the component instance whose handler awaits
\* the call still exists (a state setter of an unmounted instance does nothing).
Call(origin, api, req, closureImage) ==
    [origin |-> origin, api |-> api, req |-> req, closureImage |-> closureImage,
     mounted |-> TRUE, status |-> "pending", value |-> <<>>]

Pending(i) == calls[i].status = "pending"

Settle(cs, i, out) == [cs EXCEPT ![i].status = out.status, ![i].value = out.value]

\* the editor instance is gone: its pending continuations lose their component
Orphan(cs) ==
    [i \in 1..Len(cs) |->
        IF cs[i].origin = "handleGenerate" /\ cs[i].status = "pending"
        THEN [cs[i] EXCEPT !.mounted = FALSE]
        ELSE cs[i]]

\* the whole tree is gone: every pending continuation loses its component
Unmounted(cs) ==
    [i \in 1..Len(cs) |->
        IF cs[i].status = "pending" THEN [cs[i] EXCEPT !.mounted = FALSE] ELSE cs[i]]

(***************************************************************************)
(* ThreeDViewer: the placeholder animation.  The effect depends on [url]:   *)
(* it runs after the first render and after every render with another url, *)
(* the cleanup of the previous run first.  A pending animation-frame        *)
(* callback is the record [id, t]: the handle requestAnimationFrame         *)
(* returned for it and the frame counter t of the effect run whose render   *)
(* it will call.  Handles are never reused.                                  *)
(***************************************************************************)
SetMax(S) == CHOOSE x \in S : \A y \in S : y <= x

\* the handle the next requestAnimationFrame returns
nextFrameId(frames, lastId) == 1 + SetMax({lastId} \cup { f.id : f \in frames })

\* requestAnimationFrame(render), from the render of an effect run whose counter is t
requestAnimationFrame(frames, lastId, t) ==
    frames \cup { [id |-> nextFrameId(frames, lastId), t |-> t] }

\* cancelAnimationFrame(id)
cancelAnimationFrame(frames, id) == { f \in frames : f.id # id }

\* a plausible slip: the effect returns no cleanup
effectCleanupMissing(url, frames, id) == frames

\* return () => cancelAnimationFrame(animationFrameId), of a run that got past the
\* early return (a run with a url returns no cleanup)
effectCleanup(url, frames, id) ==
    IF url = NoUrl THEN cancelAnimationFrame(frames, id) ELSE frames

\* ThreeDViewer rendered with the url `next` after having been rendered with
\* `prev`: cleanup of the previous effect run, then the effect body with its
\* first, synchronous render() (t = 0, drawn, t++, frame requested)
ViewerRender(prev, next) ==
    IF ~viewerMounted \/ next = prev
    THEN UNCHANGED viewerVars
    ELSE LET kept == effectCleanup(prev, pendingFrames, animationFrameId) IN
         /\ viewerMounted' = viewerMounted
         /\ IF next = NoUrl
            THEN /\ nextFrameId(kept, animationFrameId) <= MaxFrames
                 /\ animationFrameId' = nextFrameId(kept, animationFrameId)
                 /\ pendingFrames' = requestAnimationFrame(kept, animationFrameId, 1)
            ELSE /\ animationFrameId' = animationFrameId
                 /\ pendingFrames' = kept

\* the browser runs the pending callback f: render() of its effect run
\* (if (!containerRef.current) return; draw; t++; request the next frame)
FrameFires(f) ==
    /\ f \in pendingFrames
    /\ IF viewerMounted
       THEN LET rest == pendingFrames \ {f}
                last == SetMax({animationFrameId, f.id}) IN
            /\ nextFrameId(rest, last) <= MaxFrames
            /\ pendingFrames' = requestAnimationFrame(rest, last, f.t + 1)
            /\ animationFrameId' = IF f.id = animationFrameId
                                   THEN nextFrameId(rest, last)
                                   ELSE animationFrameId
       ELSE /\ pendingFrames' = pendingFrames \ {f}
            /\ animationFrameId' = animationFrameId
    /\ UNCHANGED <<viewerMounted, urlVars, appVars, reading, chatVars, editorVars, calls>>

\* ThreeDViewer is unmounted: the cleanup of the last effect run, the refs nulled.
\* App renders <ThreeDViewer> unconditionally, so the viewer goes when the whole
\* tree does: the editor instance and its state go with it, no element is left
\* to receive an event, and every continuation still pending runs against
\* unmounted components.
UnmountViewer ==
    /\ viewerMounted
    /\ viewerMounted' = FALSE
    /\ pendingFrames' = effectCleanup(splineUrl, pendingFrames, animationFrameId)
    /\ animationFrameId' = animationFrameId
    /\ prompt' = EmptyText
    /\ isGenerating' = FALSE
    /\ generatedImage' = NoImage
    /\ error' = NoError
    /\ calls' = Unmounted(calls)
    /\ UNCHANGED <<urlVars, appVars, reading, chatVars>>

(***************************************************************************)
(* App.                                                                     *)
(***************************************************************************)
\* {isEditing && capturedImage && <ImageEditor .../>}
EditorMounted == viewerMounted /\ isEditing /\ HasImage(capturedImage)

\* App re-renders with a new capturedImage / isEditing: the editor's state lives
\* exactly as long as the overlay is rendered, and starts from its useState
\* initial values on every mount.
AppRender(ci, ed, cs) ==
    /\ capturedImage' = ci
    /\ isEditing' = ed
    /\ IF ed /\ HasImage(ci)
       THEN UNCHANGED editorVars
       ELSE /\ prompt' = EmptyText
            /\ isGenerating' = FALSE
            /\ generatedImage' = NoImage
            /\ error' = NoError
    /\ calls' = IF EditorMounted /\ ~(ed /\ HasImage(ci)) THEN Orphan(cs) ELSE cs

\* handleFileChange for a picked file whose data url will be img: a FileReader is
\* created, its onload installed and readAsDataURL started; the handler returns
\* with no state of App changed
handleFileChange(img) ==
    /\ viewerMounted
    /\ reading[img] < MaxReads
    /\ reading' = [reading EXCEPT ![img] = @ + 1]
    /\ UNCHANGED <<appVars, sceneVars, chatVars, editorVars, calls>>

\* reader.onload: a started read delivers its data url, a string; setCapturedImage
\* of an unmounted App does nothing
readerOnload(img) ==
    /\ reading[img] > 0
    /\ reading' = [reading EXCEPT ![img] = @ - 1]
    /\ IF viewerMounted
       THEN AppRender(img, isEditing, calls)
       ELSE UNCHANGED <<appVars, editorVars, calls>>
    /\ UNCHANGED <<sceneVars, chatVars>>

\* onClearImage={() => setCapturedImage(null)}
onClearImage(cs) == AppRender(NoImage, isEditing, cs)

\* handleEditClick (the else branch only alerts)
handleEditClick ==
    /\ viewerMounted
    /\ IF HasImage(capturedImage)
       THEN AppRender(capturedImage, TRUE, calls)
       ELSE UNCHANGED <<appVars, editorVars, calls>>
    /\ UNCHANGED <<shellVars, chatVars>>

\* a plausible slip: Save hands the image over and leaves the editor open
handleEditorSaveKeepOpen(newImg) == AppRender(newImg, isEditing, calls)

\* handleEditorSave
handleEditorSave(newImg) == AppRender(newImg, FALSE, calls)

\* onCancel={() => setIsEditing(false)}
onCancel ==
    /\ EditorMounted
    /\ AppRender(capturedImage, FALSE, calls)
    /\ UNCHANGED <<shellVars, chatVars>>

\* the "Load Spline URL" sidebar button
OpenLinkInput ==
    /\ viewerMounted
    /\ showLinkInput' = TRUE
    /\ UNCHANGED <<splineUrl, tempUrl, viewerVars, appVars, reading, chatVars, editorVars, calls>>

\* the url field of the link modal
SetTempUrl(u) ==
    /\ viewerMounted
    /\ showLinkInput
    /\ tempUrl' = u
    /\ UNCHANGED <<showLinkInput, splineUrl, viewerVars, appVars, reading, chatVars, editorVars, calls>>

\* the Cancel button of the link modal
CancelLinkInput ==
    /\ viewerMounted
    /\ showLinkInput
    /\ showLinkInput' = FALSE
    /\ UNCHANGED <<splineUrl, tempUrl, viewerVars, appVars, reading, chatVars, editorVars, calls>>

\* handleLoadUrl, and the viewer rendered with the new url
handleLoadUrl ==
    /\ viewerMounted
    /\ showLinkInput
    /\ IF tempUrl # NoUrl
       THEN /\ splineUrl' = tempUrl /\ showLinkInput' = FALSE
            /\ ViewerRender(splineUrl, tempUrl)
       ELSE UNCHANGED <<splineUrl, showLinkInput, viewerVars>>
    /\ UNCHANGED <<tempUrl, appVars, reading, chatVars, editorVars, calls>>

\* the "3D Viewport" sidebar button, and the viewer rendered with the empty url
ResetViewport ==
    /\ viewerMounted
    /\ splineUrl' = NoUrl
    /\ ViewerRender(splineUrl, NoUrl)
    /\ UNCHANGED <<showLinkInput, tempUrl, appVars, reading, chatVars, editorVars, calls>>

(***************************************************************************)
(* ChatInterface.                                                           *)
(***************************************************************************)
\* the typed texts the model draws from
Inputs == { EmptyText, <<"A","d","d">> }
GenPrompts == { EmptyText, <<"v","i","l","l","a">> }

\* onChange={(e) => setInput(e.target.value)}
SetInput(v) ==
    /\ viewerMounted
    /\ input' = v
    /\ UNCHANGED <<messages, isLoading, useThinking, useSearch, showGenModal, genSettings>>
    /\ UNCHANGED <<appVars, shellVars, editorVars, calls>>

\* onClick={() => setUseThinking(!useThinking)}
ToggleThinking ==
    /\ viewerMounted
    /\ useThinking' = ~useThinking
    /\ UNCHANGED <<input, messages, isLoading, useSearch, showGenModal, genSettings>>
    /\ UNCHANGED <<appVars, shellVars, editorVars, calls>>

\* onClick={() => setUseSearch(!useSearch)}
ToggleSearch ==
    /\ viewerMounted
    /\ useSearch' = ~useSearch
    /\ UNCHANGED <<input, messages, isLoading, useThinking, showGenModal, genSettings>>
    /\ UNCHANGED <<appVars, shellVars, editorVars, calls>>

\* onClick={() => setShowGenModal(!showGenModal)}
ToggleGenModal ==
    /\ viewerMounted
    /\ showGenModal' = ~showGenModal
    /\ UNCHANGED <<input, messages, isLoading, useThinking, useSearch, genSettings>>
    /\ UNCHANGED <<appVars, shellVars, editorVars, calls>>

\* the three fields of the generation popup: setGenSettings({...genSettings, k: v})
SetGenSettings(g) ==
    /\ viewerMounted
    /\ showGenModal
    /\ \/ g = [genSettings EXCEPT !.prompt = g.prompt]
       \/ g = [genSettings EXCEPT !.size = g.size]
       \/ g = [genSettings EXCEPT !.aspectRatio = g.aspectRatio]
    /\ genSettings' = g
    /\ UNCHANGED <<input, messages, isLoading, useThinking, useSearch, showGenModal>>
    /\ UNCHANGED <<appVars, shellVars, editorVars, calls>>

\* the Remove button of the attachment preview
ClickRemove ==
    /\ viewerMounted
    /\ HasImage(capturedImage)
    /\ onClearImage(calls)
    /\ UNCHANGED <<shellVars, chatVars>>

\* a plausible slip: the guard tests the input without trimming it
sendRejectedUntrimmed(text, img) == ~Truthy(text) /\ ~HasImage(img)

\* handleSend: if (!input.trim() && !initialImage) return;
sendRejected(text, img) == ~Truthy(trim(text)) /\ ~HasImage(img)

\* a plausible slip: the keywords are matched without lowering the input
isEditRequestCaseSensitive(img, text) ==
    /\ HasImage(img)
    /\ \E kw \in EditKeywords : includes(text, kw)

\* handleSend: isEditRequest
isEditRequest(img, text) ==
    /\ HasImage(img)
    /\ \E kw \in EditKeywords : includes(toLowerCase(text), kw)

\* a plausible slip: the welcome turn is left out of the history
historyOfSkipWelcome(msgs) ==
    [i \in 1..(Len(msgs) - 1) |->
        [role |-> msgs[i + 1].role, parts |-> << [text |-> msgs[i + 1].text] >>]]

\* handleSend: messages.map(m => ({ role: m.role, parts: [{ text: m.text || '' }] }))
historyOf(msgs) ==
    [i \in 1..Len(msgs) |-> [role |-> msgs[i].role, parts |-> << [text |-> msgs[i].text] >>]]

\* handleSend: the one service call it issues, up to the await
sendCall(msgs, text, img, thinking, search) ==
    IF isEditRequest(img, text) /\ HasImage(img)
    THEN Call("handleSend", "editImage",
              editImageRequest(img, IF Truthy(text) THEN text ELSE DefaultEditPrompt),
              img)
    ELSE Call("handleSend", "sendMessage",
              sendMessageRequest([history |-> historyOf(msgs),
                                  message |-> IF Truthy(text) THEN text ELSE DefaultChatPrompt,
                                  image |-> img,
                                  useThinking |-> thinking,
                                  useSearch |-> search]),
              img)

\* handleSend, from the event to the await
handleSend ==
    IF sendRejected(input, capturedImage)
    THEN UNCHANGED vars
    ELSE /\ Len(calls) < MaxCalls
         /\ messages' = appendMessage(messages, Msg("user", input, capturedImage, <<>>))
         /\ input' = EmptyText
         /\ isLoading' = TRUE
         /\ calls' = Append(calls, sendCall(messages, input, capturedImage, useThinking, useSearch))
         /\ UNCHANGED <<useThinking, useSearch, showGenModal, genSettings>>
         /\ UNCHANGED <<appVars, shellVars, editorVars>>

\* onKeyDown={(e) => e.key === 'Enter' && handleSend()}
KeyDownEnter == viewerMounted /\ handleSend

\* <button onClick={handleSend} disabled={isLoading}>
ClickSend == viewerMounted /\ ~isLoading /\ handleSend

\* handleSend: groundingChunks?.map(c => ({ title: c.web?.title || 'Source', uri: c.web?.uri || '' }))
groundingUrlsOf(chunks) ==
    [i \in 1..Len(chunks) |->
        [title |-> IF Truthy(chunks[i].web.title) THEN chunks[i].web.title ELSE <<"Source">>,
         uri |-> chunks[i].web.uri]]

\* handleSend: the model turn appended once the awaited call has settled
sendReply(api, out) ==
    IF out.status = "threw" THEN Msg("model", SendErrorText, NoImage, <<>>)
    ELSE IF api = "editImage"
    THEN IF HasImage(out.value)
         THEN Msg("model", EditedText, out.value, <<>>)
         ELSE Msg("model", EditEmptyText, NoImage, <<>>)
    ELSE Msg("model", out.value.text, NoImage, groundingUrlsOf(out.value.groundingChunks))

\* the wrapper's outcome for the SDK's answer
outcomeOf(api, sdk) ==
    IF api = "sendMessage" THEN sendMessageOutcome(sdk)
    ELSE IF api = "editImage" THEN editImageOutcome(sdk)
    ELSE generateImageOutcome(sdk)

\* handleSend: finally { setIsLoading(false); if (initialImage) onClearImage(); }
sendFinally(c, cs) ==
    /\ isLoading' = FALSE
    /\ IF HasImage(c.closureImage)
       THEN onClearImage(cs)
       ELSE calls' = cs /\ UNCHANGED <<appVars, editorVars>>

\* handleSend, from the settled call to the end of the handler; the setters of
\* unmounted components (setMessages, setIsLoading, App's setCapturedImage) do
\* nothing
handleSendResume(i, sdk) ==
    LET out == outcomeOf(calls[i].api, sdk) IN
    /\ calls[i].origin = "handleSend"
    /\ Pending(i)
    /\ IF calls[i].mounted
       THEN /\ messages' = appendMessage(messages, sendReply(calls[i].api, out))
            /\ sendFinally(calls[i], Settle(calls, i, out))
       ELSE /\ calls' = Settle(calls, i, out)
            /\ UNCHANGED <<messages, isLoading, appVars, editorVars>>
    /\ UNCHANGED <<input, useThinking, useSearch, showGenModal, genSettings, shellVars>>

\* handleGenImage: the user turn, `Generate ${genSettings.size} image: ${genSettings.prompt}`
genUserText(g) == <<"Generate ", g.size, " image: ">> \o g.prompt

\* handleGenImage, from the click on Generate to the await
handleGenImage ==
    /\ viewerMounted
    /\ showGenModal
    /\ Len(calls) < MaxCalls
    /\ showGenModal' = FALSE
    /\ isLoading' = TRUE
    /\ messages' = appendMessage(messages, Msg("user", genUserText(genSettings), NoImage, <<>>))
    /\ calls' = Append(calls,
            Call("handleGenImage", "generateImage",
                 generateImageRequest(genSettings.prompt, genSettings.size, genSettings.aspectRatio),
                 NoImage))
    /\ UNCHANGED <<input, useThinking, useSearch, genSettings>>
    /\ UNCHANGED <<appVars, shellVars, editorVars>>

\* handleGenImage: the model turn appended once the awaited call has settled
genReply(out) ==
    IF out.status = "threw" THEN Msg("model", GenErrorText, NoImage, <<>>)
    ELSE IF HasImage(out.value)
    THEN Msg("model", GeneratedText, out.value, <<>>)
    ELSE Msg("model", GenEmptyText, NoImage, <<>>)

\* a plausible slip: the loading flag is not reset when the generation ends
genFinallyStuck == UNCHANGED isLoading

\* handleGenImage: finally { setIsLoading(false); }
genFinally == isLoading' = FALSE

\* a plausible slip: a generation that returns no image leaves no model turn
handleGenImageResumeSilent(i, sdk) ==
    LET out == outcomeOf(calls[i].api, sdk) IN
    /\ calls[i].origin = "handleGenImage"
    /\ Pending(i)
    /\ IF calls[i].mounted
       THEN /\ messages' = IF out.status = "returned" /\ ~HasImage(out.value)
                           THEN messages
                           ELSE appendMessage(messages, genReply(out))
            /\ genFinally
       ELSE UNCHANGED <<messages, isLoading>>
    /\ calls' = Settle(calls, i, out)
    /\ UNCHANGED <<input, useThinking, useSearch, showGenModal, genSettings>>
    /\ UNCHANGED <<appVars, shellVars, editorVars>>

\* handleGenImage, from the settled call to the end of the handler; the setters
\* of an unmounted ChatInterface do nothing
handleGenImageResume(i, sdk) ==
    LET out == outcomeOf(calls[i].api, sdk) IN
    /\ calls[i].origin = "handleGenImage"
    /\ Pending(i)
    /\ IF calls[i].mounted
       THEN /\ messages' = appendMessage(messages, genReply(out))
            /\ genFinally
       ELSE UNCHANGED <<messages, isLoading>>
    /\ calls' = Settle(calls, i, out)
    /\ UNCHANGED <<input, useThinking, useSearch, showGenModal, genSettings>>
    /\ UNCHANGED <<appVars, shellVars, editorVars>>

(***************************************************************************)
(* ImageEditor (rendered by App while isEditing && capturedImage; its        *)
(* imageSrc prop is capturedImage).                                          *)
(***************************************************************************)
EditorPrompts == { EmptyText, <<"n","i","g","h","t">> }

\* onChange={(e) => setPrompt(e.target.value)}
SetPrompt(p) ==
    /\ EditorMounted
    /\ prompt' = p
    /\ UNCHANGED <<isGenerating, generatedImage, error>>
    /\ UNCHANGED <<appVars, shellVars, chatVars, calls>>

\* a plausible slip: every edit starts from the original image
activeImageOriginal == capturedImage

\* const activeImage = generatedImage || imageSrc  (also handleGenerate's sourceImage)
activeImage == IF HasImage(generatedImage) THEN generatedImage ELSE capturedImage

\* handleGenerate: if (!prompt.trim()) return;
generateRejected(p) == ~Truthy(trim(p))

\* handleGenerate, from the event to the await
handleGenerate ==
    IF generateRejected(prompt)
    THEN UNCHANGED vars
    ELSE /\ Len(calls) < MaxCalls
         /\ isGenerating' = TRUE
         /\ error' = NoError
         /\ calls' = Append(calls,
                Call("handleGenerate", "editImage", editImageRequest(activeImage, prompt), NoImage))
         /\ UNCHANGED <<prompt, generatedImage>>
         /\ UNCHANGED <<appVars, shellVars, chatVars>>

\* onKeyDown={(e) => e.key === 'Enter' && handleGenerate()}
EnterGenerate == EditorMounted /\ handleGenerate

\* <button onClick={handleGenerate} disabled={isGenerating || !prompt.trim()}>
ClickGenerate ==
    /\ EditorMounted
    /\ ~(isGenerating \/ ~Truthy(trim(prompt)))
    /\ handleGenerate

\* a plausible slip: a failed edit also drops the image generated before
generateSettledDiscard(out) ==
    IF out.status = "threw"
    THEN /\ error' = EditorThrowError
         /\ generatedImage' = NoImage
         /\ UNCHANGED prompt
    ELSE IF HasImage(out.value)
    THEN /\ generatedImage' = out.value
         /\ prompt' = EmptyText
         /\ UNCHANGED error
    ELSE /\ error' = EditorEmptyError
         /\ generatedImage' = NoImage
         /\ UNCHANGED prompt

\* handleGenerate: try / catch after the await
generateSettled(out) ==
    IF out.status = "threw"
    THEN /\ error' = EditorThrowError
         /\ UNCHANGED <<generatedImage, prompt>>
    ELSE IF HasImage(out.value)
    THEN /\ generatedImage' = out.value
         /\ prompt' = EmptyText
         /\ UNCHANGED error
    ELSE /\ error' = EditorEmptyError
         /\ UNCHANGED <<generatedImage, prompt>>

\* handleGenerate: finally { setIsGenerating(false); }
generateFinally == isGenerating' = FALSE

\* a plausible slip: a failed edit is sent again from the catch block
handleGenerateResumeRetry(i, sdk) ==
    LET out == outcomeOf(calls[i].api, sdk) IN
    /\ calls[i].origin = "handleGenerate"
    /\ Pending(i)
    /\ IF calls[i].mounted
       THEN generateSettled(out) /\ generateFinally
       ELSE UNCHANGED editorVars
    /\ calls' = IF out.status = "threw" /\ Len(calls) < MaxCalls
                THEN Append(Settle(calls, i, out),
                            Call("handleGenerate", "editImage", calls[i].req, NoImage))
                ELSE Settle(calls, i, out)
    /\ UNCHANGED <<appVars, shellVars, chatVars>>

\* handleGenerate, from the settled call to the end of the handler; the setters of
\* an instance that was unmounted meanwhile do nothing
handleGenerateResume(i, sdk) ==
    LET out == outcomeOf(calls[i].api, sdk) IN
    /\ calls[i].origin = "handleGenerate"
    /\ Pending(i)
    /\ IF calls[i].mounted
       THEN generateSettled(out) /\ generateFinally
       ELSE UNCHANGED editorVars
    /\ calls' = Settle(calls, i, out)
    /\ UNCHANGED <<appVars, shellVars, chatVars>>

\* onClick={() => setGeneratedImage(null)}, rendered while generatedImage is set
RevertToOriginal ==
    /\ EditorMounted
    /\ HasImage(generatedImage)
    /\ generatedImage' = NoImage
    /\ UNCHANGED <<prompt, isGenerating, error>>
    /\ UNCHANGED <<appVars, shellVars, chatVars, calls>>

\* handleSave
handleSave ==
    /\ IF HasImage(generatedImage)
       THEN handleEditorSave(generatedImage)
       ELSE UNCHANGED <<appVars, editorVars, calls>>
    /\ UNCHANGED <<shellVars, chatVars>>

\* <button onClick={handleSave} disabled={!generatedImage}>
ClickSave == EditorMounted /\ HasImage(generatedImage) /\ handleSave

(***************************************************************************)
(* ThreeDViewer: the capture entry point exposed through the ref.           *)
(***************************************************************************)
\* what canvas.toDataURL('image/png') yields for the placeholder canvas and for
\* the grabbed display frame
CanvasShot == dataUrl([mimeType |-> "image/png", data |-> <<"canvas pixels">>])
DisplayShot == dataUrl([mimeType |-> "image/png", data |-> <<"display frame">>])

\* captureScreenshot: '' is returned when the capture is refused or no canvas exists
captureScreenshot(url, displayGranted, hasCanvas) ==
    IF url # NoUrl
    THEN IF displayGranted THEN DisplayShot ELSE NoImage
    ELSE IF hasCanvas THEN CanvasShot ELSE NoImage

\* every image captureScreenshot can produce
Screenshots ==
    { captureScreenshot(u, g, c) : u \in Urls, g \in BOOLEAN, c \in BOOLEAN } \ {NoImage}

(***************************************************************************)
(* Specifications.                                                          *)
(***************************************************************************)
\* call i settles and its handler runs to the end
CompleteCall(i) ==
    /\ i \in 1..Len(calls)
    /\ \E sdk \in SdkAnswers(calls[i].api, i) :
        \/ handleSendResume(i, sdk)
        \/ handleGenImageResume(i, sdk)
        \/ handleGenerateResume(i, sdk)

Complete == \E i \in 1..MaxCalls : CompleteCall(i)

\* the attachment preview and the input area of the chat panel
ChatEvent ==
    \/ \E v \in Inputs : SetInput(v)
    \/ KeyDownEnter
    \/ ClickSend
    \/ ToggleGenModal
    \/ ClickRemove

\* a file is picked and read
FileEvent(img) == handleFileChange(img) \/ readerOnload(img)

ImageEvent ==
    \/ FileEvent(UploadA)
    \/ handleEditClick

EditorEvent ==
    \/ \E p \in EditorPrompts : SetPrompt(p)
    \/ EnterGenerate
    \/ ClickGenerate
    \/ RevertToOriginal
    \/ ClickSave
    \/ onCancel

UrlEvent ==
    \/ OpenLinkInput
    \/ \E u \in Urls : SetTempUrl(u)
    \/ CancelLinkInput
    \/ handleLoadUrl
    \/ ResetViewport

\* the generation popup with its three fields
GenSettingsChoices ==
    [aspectRatio : GenAspects, size : GenSizes, prompt : GenPrompts]

\* a pending animation frame fires
Frame == \E f \in pendingFrames : FrameFires(f)

\* the application: every handler of App, ChatInterface, ImageEditor and
\* ThreeDViewer, and every completion of a service call
Next ==
    \/ ChatEvent
    \/ handleGenImage
    \/ ToggleThinking
    \/ ToggleSearch
    \/ \E g \in GenSettingsChoices : SetGenSettings(g)
    \/ \E img \in Uploads : FileEvent(img)
    \/ handleEditClick
    \/ EditorEvent
    \/ UrlEvent
    \/ Frame
    \/ UnmountViewer
    \/ Complete

Spec == Init /\ [][Next]_vars

(***************************************************************************)
(* The steps of Next one concern at a time.  Each relation below keeps the  *)
(* handlers that read or write the state its properties are about and       *)
(* leaves the other handlers of Next out; every step it takes is a step of  *)
(* Next.  The two header toggles are taken by ToggleNext, the popup fields  *)
(* by GenNext, the animation frames and the unmount by ViewerNext.          *)
(***************************************************************************)
\* the chat input area and generation, the image selection, the editor overlay
PanelNext == ChatEvent \/ handleGenImage \/ ImageEvent \/ EditorEvent \/ Complete

PanelSpec == Init /\ [][PanelNext]_vars

\* the state after the user has or has not picked a file
PickedInit == \E img \in {NoImage, UploadA} : Mounted(EmptyText, img)

\* the three handlers that call the service, with what the user does to reach
\* them: typing, opening the editor and the generation popup
CallNext ==
    \/ \E v \in Inputs : SetInput(v)
    \/ KeyDownEnter
    \/ ClickSend
    \/ ToggleGenModal
    \/ handleGenImage
    \/ handleEditClick
    \/ \E p \in EditorPrompts : SetPrompt(p)
    \/ EnterGenerate
    \/ ClickGenerate
    \/ Complete

CallSpec == PickedInit /\ [][CallNext]_vars

\* the chat input area and generation, after a file was or was not picked
ChatNext == ChatEvent \/ handleGenImage \/ Complete

ChatSpec == PickedInit /\ [][ChatNext]_vars

\* the same with a user who picks one file and then another while it runs
SelectNext == ChatNext \/ \E img \in Uploads : FileEvent(img)

SelectSpec == Init /\ [][SelectNext]_vars

\* the chat input area and generation, every issued call settling eventually
LiveSpec == ChatSpec /\ \A i \in 1..MaxCalls : WF_vars(CompleteCall(i))

\* the editor overlay with the image selection it reads
EditorNext == ImageEvent \/ ClickRemove \/ EditorEvent \/ Complete

EditorSpec == Init /\ [][EditorNext]_vars

\* the typed texts enumerated for the routing heuristic: every text of at most
\* MaxInputLen characters over RouteAlphabet, one text per other keyword, and
\* texts with white space other than the space and with capitals beyond A-Z,
\* the capital sigma in final and in initial position among them
RouteAlphabet == {"a", "A", "d", "D", " ", "x"}

RouteInputs ==
    UNION { [1..k -> RouteAlphabet] : k \in 0..MaxInputLen }
    \cup { <<"R","e","m","o","v","e">>, <<"c","h","a","n","g","e","d">>,
           <<"F","I","L","T","E","R">>, <<"f","i","l","t","r","e">> }
    \cup { <<"\t">>, <<" ", "U+00a0", "U+3000">>, <<"\t","A","d","d","U+feff">>,
           <<"U+00c9","A","D","D">>, <<"F","U+0130","L","T","E","R">>,
           <<"A","D","D","U+03a3">>, <<"U+03a3","a","d","d">> }

\* sends from every typed text, with and without a picked file
RouteInit == \E text \in RouteInputs : \E img \in {NoImage, UploadA} : Mounted(text, img)

RouteNext == KeyDownEnter \/ ClickSend \/ Complete

RouteSpec == RouteInit /\ [][RouteNext]_vars

\* the chat panel with its two header toggles
ToggleNext ==
    \/ \E v \in Inputs : SetInput(v)
    \/ ToggleThinking
    \/ ToggleSearch
    \/ KeyDownEnter
    \/ ClickSend
    \/ Complete

ToggleSpec == Init /\ [][ToggleNext]_vars

\* the generation popup with its three fields
GenNext ==
    \/ ToggleGenModal
    \/ \E g \in GenSettingsChoices : SetGenSettings(g)
    \/ handleGenImage
    \/ Complete

GenSpec == Init /\ [][GenNext]_vars

\* the viewer under its url prop: scene url controls, renders of App that leave
\* the url as it is (image selection), animation frames, unmount
ViewerNext == UrlEvent \/ ImageEvent \/ Frame \/ UnmountViewer

\* the browser runs a pending animation-frame callback at the next repaint
ViewerSpec == Init /\ [][ViewerNext]_vars /\ WF_vars(Frame)

\* the controls of App, the chat input area and the editor under a user who
\* keeps using them, every issued call settling eventually
UserNext == ChatEvent \/ ImageEvent \/ EditorEvent \/ UrlEvent \/ Complete

UserSpec ==
    /\ Init /\ [][UserNext]_vars
    /\ WF_vars(Complete)
    /\ SF_vars(ChatEvent) /\ SF_vars(ImageEvent) /\ SF_vars(EditorEvent) /\ SF_vars(UrlEvent)

(***************************************************************************)
(* Vocabulary of the properties.                                            *)
(***************************************************************************)
ChatOrigins == {"handleSend", "handleGenImage"}

IsChatCall(c) == c.origin \in ChatOrigins

PendingChatCalls == { i \in 1..Len(calls) : IsChatCall(calls[i]) /\ calls[i].status = "pending" }

\* the step settles call i
Settling(i) == calls[i].status = "pending" /\ calls'[i].status # "pending"

\* a settled call that failed: it threw, or it returned an empty answer
Failed(c) ==
    \/ c.status = "threw"
    \/ /\ c.status = "returned"
       /\ \/ c.api = "sendMessage" /\ c.value.text = EmptyText
          \/ c.api # "sendMessage" /\ c.value = NoImage

\* the fixed texts the chat panel shows for a failure
GenericFailureTexts == {SendErrorText, EditEmptyText, GenErrorText, GenEmptyText}

Turns(role) == { k \in 1..Len(messages) : messages[k].role = role }

IsPrefix(a, b) == Len(a) <= Len(b) /\ \A k \in 1..Len(a) : a[k] = b[k]

\* the step appends exactly one turn, of the given role
AppendsTurn(role) ==
    /\ Len(messages') = Len(messages) + 1
    /\ IsPrefix(messages, messages')
    /\ messages'[Len(messages')].role = role

\* the step issues exactly one call
IssuesCall == Len(calls') = Len(calls) + 1

(***************************************************************************)
(* Properties.                                                              *)
(***************************************************************************)

\* C1: in the chat panel at most one service call started by handleSend or
\* handleGenImage is outstanding at any time.
C1_OneOutstandingCall == Cardinality(PendingChatCalls) <= 1

\* C2: whenever a call started by handleSend or handleGenImage settles (returned,
\* empty, or thrown) the step leaves isLoading false; and, every call settling
\* eventually, isLoading = true leads to isLoading = false.
C2_InputReenabled ==
    /\ [][ \A i \in 1..Len(calls) :
             (IsChatCall(calls[i]) /\ Settling(i)) => ~isLoading' ]_vars
    /\ (isLoading ~> ~isLoading)

\* C2 witness: a send that threw and a generation that returned no image have both
\* settled, and the input is enabled again.
C2_Witness ==
    /\ Len(calls) = 2
    /\ calls[1].origin = "handleSend" /\ calls[1].status = "threw"
    /\ calls[2].origin = "handleGenImage" /\ calls[2].status = "returned"
    /\ calls[2].value = NoImage
    /\ ~isLoading

\* C3: every failure of a call started from the chat panel (thrown error, empty
\* sendMessage text, null from editImage or generateImage) appends one model turn
\* carrying one of the fixed failure texts.
C3_FailuresSurfaced ==
    [][ \A i \in 1..Len(calls) :
          (IsChatCall(calls[i]) /\ Settling(i) /\ Failed(calls'[i]))
          => /\ AppendsTurn("model")
             /\ messages'[Len(messages')].text \in GenericFailureTexts ]_vars

\* C4: the transcript starts with the welcome turn and only grows at its end:
\* every step leaves the transcript it found as a prefix of the transcript it
\* leaves.
C4_TranscriptAppendOnly ==
    /\ messages[1] = WelcomeMessage
    /\ [][ IsPrefix(messages, messages') /\ messages'[1] = WelcomeMessage ]_vars

\* C4 witness: two overlapping chat actions have both completed, so turns were
\* appended by sends and by completions in interleaved order.
C4_Witness ==
    /\ Len(messages) = 5
    /\ messages[2].role = "user" /\ messages[3].role = "user"
    /\ messages[4].role = "model" /\ messages[5].role = "model"

\* C5: a step issues at most one call and only a user action issues one; an
\* accepted handleSend issues exactly one call, editImage or sendMessage; a
\* handleGenImage exactly one generateImage; a handleGenerate at most one
\* editImage; a call once issued is never issued again, and the step in which a
\* call settles (failed or not) issues none.
C5_OneCallPerAction ==
    [][ LET n == Len(calls) IN
        /\ Len(calls') \in {n, n + 1}
        /\ \A i \in 1..n :
             /\ calls'[i].origin = calls[i].origin
             /\ calls'[i].api = calls[i].api
             /\ calls[i].status # "pending" => calls'[i].status = calls[i].status
        /\ IssuesCall =>
             /\ \A i \in 1..n : calls'[i].status = calls[i].status
             /\ calls'[n + 1].status = "pending"
             /\ \/ calls'[n + 1].origin = "handleSend"
                   /\ calls'[n + 1].api \in {"editImage", "sendMessage"}
                \/ calls'[n + 1].origin = "handleGenImage"
                   /\ calls'[n + 1].api = "generateImage"
                \/ calls'[n + 1].origin = "handleGenerate"
                   /\ calls'[n + 1].api = "editImage"
                   /\ isGenerating' /\ messages' = messages
        /\ AppendsTurn("user") <=> (IssuesCall /\ IsChatCall(calls'[n + 1]))
      ]_vars

\* C5 witness: a chat call threw, nothing was sent again, and the next call in the
\* log is the one issued by a later Generate in the editor.
C5_Witness ==
    /\ Len(calls) = 2
    /\ calls[1].origin = "handleSend" /\ calls[1].status = "threw"
    /\ calls[2].origin = "handleGenerate"

\* C6: every accepted chat action has appended one user turn and, once its call
\* has settled, one model turn: the model turns and the outstanding chat calls
\* together number one more than the user turns (the welcome turn), and the user
\* turns number the chat calls issued; the k-th user turn precedes the model turn
\* that answers it.
C6_OneReplyPerTurn ==
    LET chat == { i \in 1..Len(calls) : IsChatCall(calls[i]) } IN
    /\ Cardinality(Turns("user")) = Cardinality(chat)
    /\ Cardinality(Turns("model")) + Cardinality(PendingChatCalls)
         = 1 + Cardinality(Turns("user"))
    /\ \A k \in 1..Len(messages) :
         Cardinality({ j \in 1..k : messages[j].role = "model" })
           <= 1 + Cardinality({ j \in 1..k : messages[j].role = "user" })

\* C6 witness: two chat actions, one of them a generation that returned nothing,
\* have both completed and no call is outstanding.
C6_Witness ==
    /\ PendingChatCalls = {}
    /\ Cardinality(Turns("user")) = 2
    /\ Cardinality(Turns("model")) = 3
    /\ \E i \in 1..Len(calls) :
         calls[i].origin = "handleGenImage" /\ calls[i].status = "returned"
         /\ calls[i].value = NoImage

\* two characters that are the same letter up to case
SameLetter(a, b) ==
    \/ a = b
    \/ <<a>> \in DOMAIN LowerOf /\ LowerOf[<<a>>] = <<b>>
    \/ <<b>> \in DOMAIN LowerOf /\ LowerOf[<<b>>] = <<a>>

\* text contains kw, case-insensitively
ContainsIgnoringCase(text, kw) ==
    \E k \in 0..(Len(text) - Len(kw)) :
        \A j \in 1..Len(kw) : SameLetter(text[k + j], kw[j])

\* the position in the transcript of the n-th user turn
UserTurn(n) ==
    CHOOSE k \in 1..Len(messages) :
        /\ messages[k].role = "user"
        /\ Cardinality({ j \in 1..k : messages[j].role = "user" }) = n

\* C7: a send is routed to editImage, on the attached image, exactly when an
\* image is attached and the typed text contains 'add', 'remove', 'change' or
\* 'filter' case-insensitively; every other accepted send is routed to
\* sendMessage, carrying the attached image if and only if there is one.
C7_CapabilityRouting ==
    \A i \in 1..Len(calls) :
        calls[i].origin = "handleSend" =>
            LET m == messages[UserTurn(i)]
                wantsEdit == /\ HasImage(m.image)
                             /\ \E kw \in EditKeywords : ContainsIgnoringCase(m.text, kw)
                first == calls[i].req.parts[1]
            IN /\ calls[i].api = "editImage" <=> wantsEdit
               /\ calls[i].api = "editImage" =>
                    /\ "inlineData" \in DOMAIN first
                    /\ first.inlineData.data = m.image.data
               /\ calls[i].api # "editImage" =>
                    /\ calls[i].api = "sendMessage"
                    /\ HasImage(m.image) <=> "inlineData" \in DOMAIN first
                    /\ HasImage(m.image) => first.inlineData.data = m.image.data

\* C7 witness: a mixed-case keyword with an image went to editImage, and a send
\* with an image and no text went to sendMessage.
C7_Witness ==
    /\ Len(calls) = 2
    /\ calls[1].api = "editImage"
    /\ messages[UserTurn(1)].text = <<"a", "D", "d">>
    /\ calls[2].api = "sendMessage"
    /\ messages[UserTurn(2)].text = EmptyText
    /\ HasImage(messages[UserTurn(2)].image)

\* C8: a chat request carries the thinking configuration exactly when
\* useThinking is on and the googleSearch tool exactly when useSearch is on, for
\* every setting of the two toggles.
C8_TogglesApplied ==
    [][ (IssuesCall /\ calls'[Len(calls')].api = "sendMessage") =>
          LET cfg == calls'[Len(calls')].req.config IN
          /\ ("thinkingConfig" \in DOMAIN cfg) <=> useThinking
          /\ ("tools" \in DOMAIN cfg /\ \E k \in 1..Len(cfg.tools) : cfg.tools[k] = "googleSearch")
               <=> useSearch ]_vars

\* no state of the application holds a screenshot as the selected image
NoScreenshotSelected == capturedImage \notin Screenshots

\* C9: the user can make the selected image a screenshot of the viewport: using
\* the controls of App, capturedImage eventually holds an image produced by
\* captureScreenshot.
C9_CanCaptureViewport == <>(capturedImage \in Screenshots)

\* C10: when an edit started in the editor throws or returns nothing, the step
\* leaves generatedImage, the prompt, the selected image and the overlay as they
\* were, sets an error text and leaves isGenerating false, so that Generate is
\* available again for a non-blank prompt; and a handleGenerate that is accepted
\* clears the error as it starts.
C10_EditorFailureNotFatal ==
    [][ /\ \A i \in 1..Len(calls) :
             (calls[i].origin = "handleGenerate" /\ calls[i].mounted
                 /\ Settling(i) /\ Failed(calls'[i]))
             => /\ generatedImage' = generatedImage
                /\ prompt' = prompt
                /\ capturedImage' = capturedImage
                /\ isEditing' = isEditing
                /\ error' \in {EditorEmptyError, EditorThrowError}
                /\ ~isGenerating'
                /\ Truthy(trim(prompt)) => ~generateRejected(prompt')
        /\ (IssuesCall /\ calls'[Len(calls')].origin = "handleGenerate")
             => error' = NoError /\ isGenerating'
      ]_vars

\* C10 witness: an edit failed in the mounted editor, which showed the error; a
\* later Generate was accepted, cleared the error and is outstanding.
C10_Witness ==
    /\ Len(calls) = 2
    /\ calls[1].origin = "handleGenerate" /\ calls[1].mounted /\ Failed(calls[1])
    /\ calls[2].origin = "handleGenerate" /\ calls[2].status = "pending"
    /\ EditorMounted
    /\ error = NoError
    /\ isGenerating

\* a text with nothing but white space in it (the empty text included)
Blank(text) == \A k \in 1..Len(text) : text[k] \in Whitespace

\* the step settles some call
SettlingSome == \E i \in 1..Len(calls) : Settling(i)

\* C11: while the input is empty or blank and no image is attached, a send (Enter
\* or the send button) issues no call and leaves the transcript, the input, the
\* loading flag and the selected image as they are: the only steps that change
\* any of them from such a state are completions of calls issued earlier.
C11_RejectedSendNoEffect ==
    [][ (Blank(input) /\ ~HasImage(capturedImage) /\ ~SettlingSome)
          => /\ calls' = calls
             /\ messages' = messages
             /\ input' = input
             /\ isLoading' = isLoading
             /\ capturedImage' = capturedImage ]_vars

\* C11 witness: a send was accepted and has completed, clearing the image; what
\* is left is a blank input with no image, where Enter and the send button are
\* rejected.
C11_Witness ==
    /\ Len(calls) = 1 /\ calls[1].status = "returned"
    /\ HasImage(calls[1].closureImage)
    /\ Blank(input) /\ ~HasImage(capturedImage)
    /\ ~isLoading
    /\ ENABLED ClickSend

\* call i was issued by handleSend with an image attached
SentWithImage(i) == calls[i].origin = "handleSend" /\ HasImage(calls[i].closureImage)

\* C12: a handleSend leaves the selected image as it is when it issues its call;
\* while a send that carried an image is outstanding, no completion takes the
\* selected image away; the completion of a send that carried an image leaves
\* capturedImage null, on every path; the completion of a send that carried no
\* image leaves capturedImage as it is.
C12_ImageClearedAfterSend ==
    [][ /\ (IssuesCall /\ calls'[Len(calls')].origin = "handleSend")
             => capturedImage' = capturedImage
        /\ \A j \in 1..Len(calls) :
             Settling(j) =>
               /\ SentWithImage(j) => capturedImage' = NoImage
               /\ (calls[j].origin = "handleSend" /\ ~SentWithImage(j))
                    => capturedImage' = capturedImage
               /\ \A i \in 1..Len(calls) \ {j} :
                    (SentWithImage(i) /\ Pending(i)) => capturedImage' = capturedImage
      ]_vars

\* C13: when a send that carried an image completes while a different image is
\* selected (the user picked or saved another one meanwhile), the selected image
\* is left as it is.
C13_ClearsOnlySentImage ==
    [][ \A i \in 1..Len(calls) :
          (SentWithImage(i) /\ Settling(i)
              /\ HasImage(capturedImage) /\ capturedImage # calls[i].closureImage)
          => capturedImage' = capturedImage ]_vars

\* C14: in every reachable state of App, isEditing implies that an image is
\* selected.
C14_EditingHasImage == isEditing => HasImage(capturedImage)

\* call i was issued by the editor
IsEditorCall(i) == calls[i].origin = "handleGenerate"

\* C15: Close/Cancel closes the editor and leaves the selected image as it is,
\* whatever was generated; a step that closes the editor while no generated image
\* exists leaves the selected image as it is (Save does nothing then); Save on a
\* generated image makes it the selected image and closes the editor; and what
\* else happens in the open editor (typing, Generate, a completing edit, Revert)
\* never changes the selected image.
C15_SelectedImageOnlyThroughSave ==
    [][ /\ onCancel => (capturedImage' = capturedImage /\ ~isEditing')
        /\ (EditorMounted /\ ~isEditing' /\ ~HasImage(generatedImage))
             => capturedImage' = capturedImage
        /\ (EditorMounted /\ ~isEditing')
             => (capturedImage' = capturedImage \/ capturedImage' = generatedImage)
        /\ ClickSave => (capturedImage' = generatedImage /\ ~isEditing')
        /\ (EditorMounted /\ EditorMounted' /\ editorVars' # editorVars)
             => capturedImage' = capturedImage
        /\ \A i \in 1..Len(calls) :
             (IsEditorCall(i) /\ Settling(i)) => appVars' = appVars
        /\ (IssuesCall /\ calls'[Len(calls')].origin = "handleGenerate")
             => appVars' = appVars
      ]_vars

\* C15 witness: an edit was generated and saved, becoming the selected image; the
\* editor was opened again on it, a second edit was generated, and the editor was
\* closed without saving: the selected image is still the first edit.
C15_Witness ==
    /\ Len(calls) = 2
    /\ IsEditorCall(1) /\ calls[1].status = "returned" /\ HasImage(calls[1].value)
    /\ IsEditorCall(2) /\ calls[2].status = "returned" /\ HasImage(calls[2].value)
    /\ calls[2].mounted
    /\ calls[2].req.parts[1].inlineData.data = calls[1].value.data
    /\ capturedImage = calls[1].value
    /\ ~isEditing

\* the image part and the text part of an editImage request
SourceData(c) == c.req.parts[1].inlineData.data
PromptText(c) == c.req.parts[2].text

\* C16: a handleGenerate that issues a call sends the image visible at that
\* moment (the generated image if there is one, else the original) with the
\* prompt as typed; an edit that returns an image to the open editor makes it
\* the generated (visible) image and clears the prompt; when the generated image
\* is discarded in the open editor (Revert) nothing else changes, so the visible
\* image and the source of the next edit are the original again.
C16_EditsChain ==
    [][ /\ (IssuesCall /\ calls'[Len(calls')].origin = "handleGenerate")
             => /\ SourceData(calls'[Len(calls')])
                     = (IF HasImage(generatedImage) THEN generatedImage.data
                                                    ELSE capturedImage.data)
                /\ PromptText(calls'[Len(calls')]) = prompt
        /\ \A i \in 1..Len(calls) :
             (IsEditorCall(i) /\ calls[i].mounted /\ Settling(i)
                 /\ calls'[i].status = "returned" /\ HasImage(calls'[i].value))
             => /\ generatedImage' = calls'[i].value
                /\ prompt' = EmptyText
        /\ (EditorMounted /\ EditorMounted' /\ HasImage(generatedImage) /\ ~HasImage(generatedImage'))
             => /\ appVars' = appVars /\ calls' = calls
                /\ prompt' = prompt
      ]_vars

\* C16 witness: in one editor session on the uploaded image a first edit returned
\* an image and a second edit was sent with that image as its source.
C16_Witness ==
    /\ Len(calls) = 2
    /\ IsEditorCall(1) /\ calls[1].status = "returned" /\ HasImage(calls[1].value)
    /\ IsEditorCall(2) /\ calls[2].status = "pending"
    /\ SourceData(calls[1]) = UploadA.data
    /\ SourceData(calls[2]) = calls[1].value.data
    /\ capturedImage = UploadA
    /\ generatedImage = calls[1].value

\* the edit calls of the open editor that have not settled
PendingEditorCalls ==
    { i \in 1..Len(calls) : IsEditorCall(i) /\ calls[i].mounted /\ Pending(i) }

\* C17: in the image editor at most one edit call is outstanding at any time.
C17_OneOutstandingEdit == Cardinality(PendingEditorCalls) <= 1

\* C18: in every reachable state of the chat panel isLoading is true exactly when
\* a call started by handleSend or handleGenImage has not completed.
C18_LoadingTracksCalls == isLoading <=> (PendingChatCalls # {})

\* the position in the transcript of the user turn appended by the handler that
\* issued call i (the k-th chat call goes with the k-th user turn)
TurnOfCall(i) == UserTurn(Cardinality({ j \in 1..i : IsChatCall(calls[j]) }))

\* C19: the history of every sendMessage request is the transcript as it was
\* before the user turn of that send was appended: as many entries as turns
\* before it, in order, each with the turn's role and one text part holding the
\* turn's text and nothing else; the user turn itself is not in the history and
\* its text (or the default prompt when it is empty) is the text part of the
\* new message.
C19_HistoryIsPriorTranscript ==
    \A i \in 1..Len(calls) :
        calls[i].api = "sendMessage" =>
            LET k == TurnOfCall(i)
                h == calls[i].req.history
                new == calls[i].req.parts[Len(calls[i].req.parts)]
            IN /\ Len(h) = k - 1
               /\ \A j \in 1..Len(h) :
                    /\ h[j].role = messages[j].role
                    /\ h[j].parts = << [text |-> messages[j].text] >>
               /\ DOMAIN new = {"text"}
               /\ new.text = IF messages[k].text = EmptyText
                             THEN DefaultChatPrompt ELSE messages[k].text

\* C19 witness: a second chat request was sent after the first was answered; its
\* history holds the welcome turn, the first user turn and the first answer.
C19_Witness ==
    /\ Len(calls) = 2
    /\ calls[1].api = "sendMessage" /\ calls[2].api = "sendMessage"
    /\ Len(calls[2].req.history) = 3
    /\ calls[2].req.history[2].role = "user"
    /\ calls[2].req.history[3].role = "model"
    /\ calls[2].req.history[3].parts[1].text = AnswerText

\* the placeholder is shown: the viewer is mounted with an empty url
Animating == viewerMounted /\ splineUrl = NoUrl

\* the frame counter of the running animation loop (0 when none runs)
CurrentT ==
    IF \E f \in pendingFrames : f.id = animationFrameId
    THEN (CHOOSE f \in pendingFrames : f.id = animationFrameId).t
    ELSE 0

\* the model can still hand out a frame handle
FrameRoom == nextFrameId(pendingFrames, animationFrameId) <= MaxFrames

\* C20: while the viewer is mounted with an empty url exactly one animation-frame
\* callback is pending, the one the running loop requested last; while the url
\* is non-empty or the viewer is unmounted none is pending; a frame is requested
\* only by a render of the placeholder: the first render of a loop that starts
\* when the url becomes empty (t = 1), or the render of the pending frame that
\* fired, which it replaces with t grown by 1; and a pending frame of the
\* running loop is eventually rendered unless the url is set or the viewer
\* unmounted first.
C20_AnimationFollowsUrl ==
    /\ [](Animating => /\ Cardinality(pendingFrames) = 1
                       /\ \A f \in pendingFrames : f.id = animationFrameId)
    /\ [](~Animating => pendingFrames = {})
    /\ [][ \A n \in pendingFrames' \ pendingFrames :
             /\ Animating'
             /\ \/ ~Animating /\ n.t = 1
                \/ /\ Animating
                   /\ \E f \in pendingFrames \ pendingFrames' : n.t = f.t + 1 ]_vars
    /\ \A k \in 1..MaxFrames :
          (Animating /\ CurrentT = k /\ FrameRoom) ~> (~Animating \/ CurrentT = k + 1)

\* C20 witness: the url was set and emptied again at least once and the restarted
\* loop has rendered its second frame: the fourth handle carries t = 2.
C20_Witness ==
    /\ Animating
    /\ pendingFrames = { [id |-> 4, t |-> 2] }
    /\ tempUrl = SceneUrl

====
